---- MODULE Spec2Model ----
(***************************************************************************)
(* Model of the symbolic fixed-point solver for the population control     *)
(* problem: coefficients, ideals, downsets, flows, the flow semigroup      *)
(* closure, the safe pre-image and the strategy refinement loop.           *)
(*                                                                         *)
(* Encoding.  A coefficient Coef::Value(v) is the natural number v and     *)
(* Coef::Omega is the number OMEGA, which lies above every u8 value, so    *)
(* that the derived order of the enum (Value(_) < Omega) is the order of   *)
(* the integers.  An ideal (Vec<Coef>) over n states is a function on      *)
(* 0..n-1.  A flow is a record [nb_rows, nb_cols, entries] whose entries   *)
(* are a function on 0..nb_rows*nb_cols-1, in row-major order as in the    *)
(* source.  A HashSet is a set; wherever the source iterates a HashSet in  *)
(* an order that can influence the outcome, the order is a nondeterministic*)
(* choice.                                                                 *)
(***************************************************************************)
EXTENDS Integers, Sequences, FiniteSets, TLC

\* ---------------------------------------------------------------- bounds
\* largest number of states of the automata, graphs and ideals drawn as inputs
MaxDim == 2
\* largest maximal finite value (K) drawn as an input
MaxK == 2
\* largest number of ideals in a downset drawn as an input
MaxIdeals == 2
\* largest number of seed flows drawn as an input
MaxSeeds == 1
\* largest finite entry of a seed flow drawn as an input
MaxSeedCoef == 1
\* largest number of entries other than 0 of a seed flow whose closure under
\* a bound above 1 is followed to its end
MaxSeedEntries == 2
\* largest number of flows a semigroup under construction may hold: a run
\* that would admit one more is not followed further
MaxFlows == 6
\* largest number of states of an Nfa given to solve
MaxStates == 2
\* largest number of letters of an Nfa given to solve
MaxLetters == 2
\* largest number of transitions of an Nfa given to solve
MaxTransitions == 3
\* largest number of letters and of transitions of the Nfas solve is compared
\* on with their completion
MaxLettersCompleted == 2
MaxTransitionsCompleted == 2
\* number of states and largest number of transitions of the one-letter Nfas
\* that take solve through several values of maximal_finite_value
MaxStatesThree == 3
MaxTransitionsThree == 2
\* largest number of calls of update_strategy followed in one run of solve
MaxSteps == 6
\* the dimension of the flows with entries 0 and omega given to Flow::iteration
\* besides the flows of dimension at most MaxDim
MaxFlowDim == 3
\* the threads inside safe_pre_image at the same time
MaxThreads == 2
\* the arguments of get_partitions and get_transports
MaxPartitionValue == 5
MaxPartitionLen == 5
\* the states of an Nfa whose coefficients come close to the width of coef
MaxCoefStates == 127
\* the transitions of an Nfa that is loaded, sorted and solved
MaxLoadTransitions == 2
\* largest population played in the token game that a verdict is compared with
MaxTokens == 2

\* ------------------------------------------------------------ coefficients
\* coef::MAX of the u8 type behind a finite coefficient
CoefMax == 255
\* Coef::Omega
OMEGA == 256
C0 == 0
C1 == 1

Max2(a, b) == IF a >= b THEN a ELSE b
Min2(a, b) == IF a <= b THEN a ELSE b

RECURSIVE SetMax(_)
\* Iterator::max over a non-empty set of numbers
SetMax(S) ==
    IF Cardinality(S) = 1 THEN CHOOSE x \in S : TRUE
    ELSE LET x == CHOOSE y \in S : TRUE IN Max2(x, SetMax(S \ {x}))

\* ------------------------------------------------------------------ panics
\* The two settings of the build profile the arithmetic depends on.  The dev
\* and test profiles (cargo build, cargo test) have both on: a u8 operation
\* that leaves 0..coef::MAX panics and debug_assert! is compiled in.  The
\* release profile has both off (value FALSE): the operation wraps modulo
\* coef::MAX + 1 and debug_assert! is compiled out.  assert!, panic! and an
\* index out of bounds panic under either profile.
overflow_checks == TRUE
debug_assertions == TRUE

\* The outcome "the call panicked", as a value of each type a function
\* returns, outside the values the function can return: a coefficient, an
\* ideal, a collection of ideals, a collection of coefficients, a Vec<u16>,
\* a Vec<Vec<u16>>, a flow, a set of flows.  A function that is handed a panic has panicked.
Panic == 0 - 1
PanicIdeal == [i \in {Panic} |-> Panic]
PanicIdeals == {PanicIdeal}
PanicCoefs == {Panic}
PanicVec == <<Panic>>
PanicVecs == <<PanicVec>>
PanicFlow == [nb_rows |-> Panic, nb_cols |-> Panic, entries |-> PanicIdeal]
PanicFlows == {PanicFlow}

\* impl Add for &Coef and AddAssign for Coef in a build with or without
\* overflow checks: omega absorbs, finite values add in u8 (x + y, x0 + x1)
CoefAddIn(checks, x, y) ==
    IF x = Panic \/ y = Panic THEN Panic
    ELSE IF x = OMEGA \/ y = OMEGA THEN OMEGA
    ELSE IF x + y > CoefMax /\ checks THEN Panic
    ELSE (x + y) % (CoefMax + 1)

\* impl Add for &Coef
CoefAdd(x, y) == CoefAddIn(overflow_checks, x, y)

\* impl Sub for &Coef: finite values subtract in u8 (x - y)
CoefSub(x, y) ==
    IF x = Panic \/ y = Panic THEN Panic
    ELSE IF x = OMEGA THEN OMEGA
    ELSE IF y = OMEGA THEN C0
    ELSE IF x - y < 0 /\ overflow_checks THEN Panic
    ELSE (x - y) % (CoefMax + 1)

\* Coef::round_up
CoefRoundUp(x, max_finite_value) ==
    IF x # OMEGA /\ x > max_finite_value THEN OMEGA ELSE x

\* the coefficients with finite part at most k
Coefs(k) == (0..k) \cup {OMEGA}

\* --------------------------------------------------------------- sequences
RECURSIVE SetToSeq(_)
\* the elements of a finite set of numbers in increasing order
SetToSeq(S) ==
    IF S = {} THEN <<>>
    ELSE LET m == CHOOSE x \in S : \A y \in S : x <= y
         IN <<m>> \o SetToSeq(S \ {m})

RECURSIVE SeqSum(_)
SeqSum(s) == IF s = <<>> THEN 0 ELSE Head(s) + SeqSum(Tail(s))

RECURSIVE Flatten(_)
\* concatenation of a sequence of sequences
Flatten(ss) == IF ss = <<>> THEN <<>> ELSE Head(ss) \o Flatten(Tail(ss))

SeqRange(s) == {s[i] : i \in 1..Len(s)}

\* -------------------------------------------------------------- partitions
RECURSIVE partitions_get_transports_rec(_, _, _)
\* partitions::get_transports_rec; current is a Vec, pointer is 0-based
partitions_get_transports_rec(c, current, pointer) ==
    IF c = 0 THEN <<current>>
    ELSE IF pointer + 1 < Len(current)
    THEN Flatten([c0p \in 1..c |->
                    partitions_get_transports_rec(c - (c0p - 1),
                                       [current EXCEPT ![pointer + 1] = c0p - 1],
                                       pointer + 1)])
         \o <<[current EXCEPT ![pointer + 1] = c]>>
    ELSE <<[current EXCEPT ![pointer + 1] = c]>>

\* get_transports that leaves the first coordinate at 0
partitions_get_transports_from_second(c, len) ==
    partitions_get_transports_rec(c, [i \in 1..len |-> 0], Min2(1, len - 1))

\* partitions::get_transports: assert!(len > 0) panics for len = 0
partitions_get_transports(c, len) ==
    IF len > 0 THEN partitions_get_transports_rec(c, [i \in 1..len |-> 0], 0)
    ELSE PanicVecs

RECURSIVE get_partitions_rec(_, _)
RECURSIVE get_partitions_loop(_, _, _)
\* partitions::get_partitions_rec: the pushed vectors and the final value of
\* the shared vector current; start_index is 0-based
get_partitions_rec(start_index, current) ==
    IF start_index + 1 >= Len(current)
    THEN [res |-> <<current>>, cur |-> current]
    ELSE get_partitions_loop(start_index, current, <<current>>)

\* the while loop of get_partitions_rec
get_partitions_loop(start_index, current, result) ==
    IF current[start_index + 1] = 0
    THEN [res |-> result, cur |-> current]
    ELSE LET c1 == [current EXCEPT ![start_index + 1] = @ - 1]
             c2 == [c1 EXCEPT ![start_index + 2] =
                        SeqSum(SubSeq(c1, start_index + 2, Len(c1))) + 1]
             c3 == [i \in 1..Len(c2) |-> IF i >= start_index + 3 THEN 0 ELSE c2[i]]
             r == get_partitions_rec(start_index + 1, c3)
         IN get_partitions_loop(start_index, r.cur, result \o r.res)

\* partitions::get_partitions
get_partitions(x, len) ==
    IF len > 0
    THEN get_partitions_rec(0, [i \in 1..len |-> IF i = 1 THEN x ELSE 0]).res
    ELSE <<>>

\* ------------------------------------------------------------------ ideals
IdealNew(dimension, val) == [i \in 0..(dimension - 1) |-> val]

IdealLen(x) == Cardinality(DOMAIN x)

\* all ideals of the given dimension with finite coefficients at most k
Ideals(dimension, k) == [0..(dimension - 1) -> Coefs(k)]

\* PartialOrd for the vector of coefficients: x <= y
IdealLeq(x, y) == \A i \in DOMAIN x : x[i] <= y[i]

\* PartialOrd for the vector of coefficients: x < y
\* a strict order asking for a smaller coefficient at every state
IdealLtEverywhere(x, y) == \A i \in DOMAIN x : x[i] < y[i]

IdealLt(x, y) == IdealLeq(x, y) /\ ~IdealLeq(y, x)

\* intersection: componentwise minimum
\* the componentwise maximum in place of the minimum
IdealUnion(x, y) == [i \in DOMAIN x |-> Max2(x[i], y[i])]

IdealIntersection(x, y) == [i \in DOMAIN x |-> Min2(x[i], y[i])]

\* add_other: componentwise sum, self.0[i] += x.0[i] for every i of self.
\* debug_assert_eq! on the lengths; without it a shorter x is read out of
\* bounds; an overflowing coordinate panics under overflow_checks
IdealAddIn(checks, x, y) ==
    IF x = PanicIdeal \/ y = PanicIdeal THEN PanicIdeal
    ELSE IF debug_assertions /\ IdealLen(x) # IdealLen(y) THEN PanicIdeal
    ELSE IF IdealLen(y) < IdealLen(x) THEN PanicIdeal
    ELSE IF \E i \in DOMAIN x : CoefAddIn(checks, x[i], y[i]) = Panic THEN PanicIdeal
    ELSE [i \in DOMAIN x |-> CoefAddIn(checks, x[i], y[i])]

\* add_other
IdealAdd(x, y) == IdealAddIn(overflow_checks, x, y)

\* all_omega
all_omega(x, succ) == \A i \in succ : x[i] = OMEGA

\* round_up on every component
IdealRoundUp(x, max_finite_value) ==
    [i \in DOMAIN x |-> CoefRoundUp(x[i], max_finite_value)]

\* round_down: finite components above upper_bound are capped; the loop
\* reads self.0[i] for every i in 0..dim, out of bounds when dim > len
IdealRoundDown(x, upper_bound, dim) ==
    IF dim > IdealLen(x) THEN PanicIdeal
    ELSE [i \in DOMAIN x |->
            IF i < dim /\ x[i] # OMEGA /\ x[i] > upper_bound THEN upper_bound ELSE x[i]]

\* some_finite_coordinate_is_larger_than
some_finite_coordinate_is_larger_than(x, upper_bound) ==
    \E i \in DOMAIN x : x[i] < OMEGA /\ x[i] > upper_bound

\* ------------------------------------------------------------------ graphs
\* Graph::new: a dimension and a set of edges <<i, j>>
Graph(dim, edges) == [dim |-> dim, edges |-> edges]

\* Graph::get_successors, as a set
get_successors(g, i) == {e[2] : e \in {f \in g.edges : f[1] = i}}

\* all graphs over the given number of states
Graphs(dim) ==
    {Graph(dim, E) : E \in SUBSET ((0..(dim - 1)) \X (0..(dim - 1)))}

\* ---------------------------------------------------------------- downsets
\* DownSet::contains
contains(D, source) == \E x \in D : IdealLeq(source, x)

\* DownSet::is_contained_in
is_contained_in(D, other) == \A x \in D : contains(other, x)

\* PartialEq for DownSet: mutual containment
DownSetEq(D, other) == is_contained_in(D, other) /\ is_contained_in(other, D)

\* DownSet::insert, the stored set afterwards
insert(D, ideal) == D \cup {ideal}

\* DownSet::insert, the returned flag
insert_ret(D, ideal) == ideal \notin D

\* DownSet::minimize, the stored set afterwards
minimize(D) == {x \in D : ~(\E y \in D : IdealLt(x, y))}

\* DownSet::minimize, the returned flag
minimize_ret(D) == minimize(D) # D

\* restrict_to reporting a change whatever it did
restrict_to_ret_always(D, other) == TRUE

\* DownSet::restrict_to, the returned flag
restrict_to_ret(D, other) == \E ideal \in D : ~contains(other, ideal)

\* restrict_to dropping the ideals that other does not contain
restrict_to_dropping(D, other) == {ideal \in D : contains(other, ideal)}

\* restrict_to keeping the ideals of other that self does not contain
restrict_to_difference(D, other) == {y \in other : ~contains(D, y)}

\* DownSet::restrict_to, the stored set afterwards
restrict_to(D, other) ==
    LET new_ideals ==
            {ideal \in D : contains(other, ideal)}
            \cup {IdealIntersection(ideal, other_ideal) :
                    ideal \in {i \in D : ~contains(other, i)}, other_ideal \in other}
    IN IF restrict_to_ret(D, other) THEN minimize(new_ideals) ELSE D

\* DownSet::round_down, the stored set afterwards; a panic of
\* Ideal::round_down on one of the removed ideals ends the call
round_down(D, maximal_finite_value, dim) ==
    LET to_remove ==
            {s \in D : some_finite_coordinate_is_larger_than(s, maximal_finite_value)}
    IN IF \E s \in to_remove : IdealRoundDown(s, maximal_finite_value, dim) = PanicIdeal
       THEN PanicIdeals
       ELSE (D \ to_remove)
            \cup {IdealRoundDown(s, maximal_finite_value, dim) : s \in to_remove}

\* get_choices: the ways one state can send its tokens to its successors.
\* A finite non-zero value on a state without successor reaches
\* assert!(len > 0) of partitions::get_transports; a successor outside
\* 0..dim-1 is written out of bounds (base[succ], vec[successors[..]])
get_choices(dim, value, successors) ==
    IF value = C0 THEN {IdealNew(dim, C0)}
    ELSE IF value = OMEGA
    THEN IF \E j \in successors : j >= dim THEN PanicIdeals
         ELSE {[j \in 0..(dim - 1) |-> IF j \in successors THEN OMEGA ELSE C0]}
    ELSE LET succ == SetToSeq(successors)
             transports == partitions_get_transports(value, Len(succ))
         IN IF transports = PanicVecs THEN PanicIdeals
            ELSE IF \E j \in successors : j >= dim THEN PanicIdeals
            ELSE {[j \in 0..(dim - 1) |->
                    IF j \in successors
                    THEN transports[t][CHOOSE p \in 1..Len(succ) : succ[p] = j]
                    ELSE C0] : t \in 1..Len(transports)}

RECURSIVE get_image_rec(_, _, _, _, _)
\* the sums of one choice per state, for the states index..dim-1; a panic
\* of get_choices or of add_other is the one member PanicIdeal
get_image_rec(dim, dom, edges, index, acc) ==
    IF acc = PanicIdeal THEN PanicIdeals
    ELSE IF index >= IdealLen(dom) THEN {acc}
    ELSE LET choices == get_choices(dim, dom[index], get_successors(edges, index))
         IN IF choices = PanicIdeals THEN PanicIdeals
            ELSE UNION {get_image_rec(dim, dom, edges, index + 1, IdealAdd(acc, s)) :
                            s \in choices}

\* DownSet::get_image: the choices of every state are computed first, then
\* summed one product at a time; a panic anywhere ends the call
get_image(dim, dom, edges, max_finite_value) ==
    LET sums == get_image_rec(dim, dom, edges, 0, IdealNew(dim, C0))
    IN IF PanicIdeal \in sums THEN PanicIdeals
       ELSE {IdealRoundUp(im, max_finite_value) : im \in sums}

\* is_safe_with_roundup asking for one successor configuration in D only
is_safe_for_some_image(D, candidate, edges, maximal_finite_coordinate) ==
    LET dim == edges.dim
        lose_ideal == \E i \in 0..(dim - 1) :
                        candidate[i] # C0 /\ get_successors(edges, i) = {}
    IN IF lose_ideal THEN FALSE
       ELSE \E x \in get_image(dim, candidate, edges, maximal_finite_coordinate) :
                contains(D, x)

\* is_safe_with_roundup looking the successor configurations up among the
\* stored ideals of D
is_safe_with_roundup_if_stored(D, candidate, edges, maximal_finite_coordinate) ==
    LET dim == edges.dim
        lose_ideal == \E i \in 0..(dim - 1) :
                        candidate[i] # C0 /\ get_successors(edges, i) = {}
    IN IF lose_ideal THEN FALSE
       ELSE \A x \in get_image(dim, candidate, edges, maximal_finite_coordinate) : x \in D

\* whether the additions of get_image can leave u8 at all: a sum of at most
\* len finite coordinates, each at most coef::MAX / len, cannot
may_overflow(candidate) ==
    \E i \in DOMAIN candidate :
        candidate[i] # OMEGA /\ candidate[i] * IdealLen(candidate) > CoefMax

\* DownSet::is_safe_with_roundup, whether the call panics: the candidate is
\* not given up by lose_ideal and get_image panics
is_safe_with_roundup_panics(candidate, edges, maximal_finite_coordinate) ==
    LET dim == edges.dim
        lose_ideal == \E i \in 0..(dim - 1) :
                        candidate[i] # C0 /\ get_successors(edges, i) = {}
    IN /\ ~lose_ideal
       /\ may_overflow(candidate)
       /\ get_image(dim, candidate, edges, maximal_finite_coordinate) = PanicIdeals

\* DownSet::is_safe_with_roundup: the verdict, or Panic when get_image panics
is_safe_with_roundup(D, candidate, edges, maximal_finite_coordinate) ==
    LET dim == edges.dim
        lose_ideal == \E i \in 0..(dim - 1) :
                        candidate[i] # C0 /\ get_successors(edges, i) = {}
        image == get_image(dim, candidate, edges, maximal_finite_coordinate)
    IN IF lose_ideal THEN FALSE
       ELSE IF image = PanicIdeals THEN Panic
       ELSE \A x \in image : contains(D, x)

\* the match of safe_pre_image that builds possible_coefs for one state
possible_coefs_at(max_finite_coordi, is_omega_possible) ==
    IF max_finite_coordi = 0 /\ ~is_omega_possible THEN <<C0>>
    ELSE IF max_finite_coordi = 0 THEN <<OMEGA>>
    ELSE IF ~is_omega_possible THEN <<max_finite_coordi>>
    ELSE <<OMEGA, max_finite_coordi>>

\* compute_possible_coefs, for one state: the coefficients to try.  The
\* range 0..c + 1 is computed in u8: for c = coef::MAX the bound c + 1
\* panics under overflow_checks and wraps to 0, the empty range, without
compute_possible_coefs_at(v) ==
    LET finite == SelectSeq(v, LAMBDA x : x # OMEGA)
        is_omega == OMEGA \in SeqRange(v)
    IN IF finite = <<>>
       THEN (IF is_omega THEN {OMEGA} ELSE {C0})
       ELSE IF Head(finite) + 1 > CoefMax
       THEN (IF overflow_checks THEN PanicCoefs
             ELSE (IF is_omega THEN {OMEGA} ELSE {}))
       ELSE (IF is_omega THEN {OMEGA} ELSE {}) \cup (0..Head(finite))

\* compute_possible_coefs: the cartesian product of the coefficients to try;
\* the coefficients of every state are computed before the product is taken
compute_possible_coefs(possible_coefs) ==
    IF \E i \in DOMAIN possible_coefs :
          compute_possible_coefs_at(possible_coefs[i]) = PanicCoefs
    THEN PanicIdeals
    ELSE {c \in [DOMAIN possible_coefs ->
                    UNION {compute_possible_coefs_at(possible_coefs[i]) :
                              i \in DOMAIN possible_coefs}] :
            \A i \in DOMAIN possible_coefs :
                c[i] \in compute_possible_coefs_at(possible_coefs[i])}

\* possible_coefs with omega allowed wherever every successor leads to omega,
\* the states with no successor included
safe_pre_image_possible_coefs_vacuous_omega(D, edges, maximal_finite_coordinate) ==
    LET dim == edges.dim
        S == 0..(dim - 1)
        max_finite_coordsj ==
            [j \in S |-> SetMax({IF ideal[j] = OMEGA THEN maximal_finite_coordinate
                                 ELSE ideal[j] : ideal \in D})]
        max_finite_coordsi ==
            [i \in S |-> LET succ == get_successors(edges, i)
                         IN IF succ = {} THEN 0
                            ELSE SetMax({Min2(maximal_finite_coordinate,
                                              max_finite_coordsj[j]) : j \in succ})]
    IN [i \in S |-> possible_coefs_at(max_finite_coordsi[i],
                                      \E ideal \in D :
                                          all_omega(ideal, get_successors(edges, i)))]

\* DownSet::safe_pre_image up to the cache lookup: the local possible_coefs,
\* which is the key handed to POSSIBLE_COEFS_CACHE
safe_pre_image_possible_coefs(D, edges, maximal_finite_coordinate) ==
    LET dim == edges.dim
        S == 0..(dim - 1)
        is_omega_possible ==
            [i \in S |-> LET succ == get_successors(edges, i)
                         IN succ # {} /\ \E ideal \in D : all_omega(ideal, succ)]
        max_finite_coordsj ==
            [j \in S |-> SetMax({IF ideal[j] = OMEGA THEN maximal_finite_coordinate
                                 ELSE ideal[j] : ideal \in D})]
        max_finite_coordsi ==
            [i \in S |-> LET succ == get_successors(edges, i)
                         IN IF succ = {} THEN 0
                            ELSE SetMax({Min2(maximal_finite_coordinate,
                                              max_finite_coordsj[j]) : j \in succ})]
    IN [i \in S |-> possible_coefs_at(max_finite_coordsi[i], is_omega_possible[i])]

\* DownSet::safe_pre_image after the cache lookup: the filter of the
\* candidates, the inserts and the final minimize
\* a panic of the closure of the cache or of one is_safe_with_roundup ends
\* the call
safe_pre_image_filter(D, edges, maximal_finite_coordinate, candidates) ==
    IF candidates = PanicIdeals THEN PanicIdeals
    ELSE IF \E c \in candidates :
               is_safe_with_roundup_panics(c, edges, maximal_finite_coordinate)
    THEN PanicIdeals
    ELSE minimize({c \in candidates :
                    is_safe_with_roundup(D, c, edges, maximal_finite_coordinate)})

\* DownSet::safe_pre_image
safe_pre_image(D, edges, maximal_finite_coordinate) ==
    IF edges.dim = 0 \/ D = {} THEN {}
    ELSE safe_pre_image_filter(D, edges, maximal_finite_coordinate,
            compute_possible_coefs(
                safe_pre_image_possible_coefs(D, edges, maximal_finite_coordinate)))

\* Memoizer::get that computes and returns the value without caching it
memoizer_get_forgetting(self, key) ==
    IF key \in DOMAIN self.cache
    THEN [value |-> self.cache[key], self |-> self, computed |-> FALSE]
    ELSE [value |-> compute_possible_coefs(key), self |-> self, computed |-> TRUE]

\* Memoizer::get on POSSIBLE_COEFS_CACHE, whose closure is
\* compute_possible_coefs: the value returned, the Memoizer afterwards and
\* whether the closure ran; a panic of the closure leaves the cache as it was
memoizer_get(self, key) ==
    IF key \in DOMAIN self.cache
    THEN [value |-> self.cache[key], self |-> self, computed |-> FALSE]
    ELSE IF compute_possible_coefs(key) = PanicIdeals
    THEN [value |-> PanicIdeals, self |-> self, computed |-> TRUE]
    ELSE [value |-> compute_possible_coefs(key),
          self |-> [cache |-> [k \in DOMAIN self.cache \cup {key} |->
                                  IF k = key THEN compute_possible_coefs(key)
                                  ELSE self.cache[k]]],
          computed |-> TRUE]

\* POSSIBLE_COEFS_CACHE after a call of DownSet::safe_pre_image that found it
\* as cache: the early return leaves it alone, otherwise
\* `POSSIBLE_COEFS_CACHE.lock().unwrap().get(possible_coefs)` has looked the
\* key of the call up
safe_pre_image_memoizer(cache, D, edges, maximal_finite_coordinate) ==
    IF edges.dim = 0 \/ D = {} THEN cache
    ELSE memoizer_get(cache,
                      safe_pre_image_possible_coefs(D, edges,
                                                    maximal_finite_coordinate)).self

\* ------------------------------------------------------------------- flows
\* Flow::from_entries
Flow(nb_rows, nb_cols, entries) ==
    [nb_rows |-> nb_rows, nb_cols |-> nb_cols, entries |-> entries]

\* Flow::get
FlowGet(f, i, j) == f.entries[i * f.nb_cols + j]

\* Flow::set
FlowSet(f, i, j, c) ==
    Flow(f.nb_rows, f.nb_cols,
         [k \in DOMAIN f.entries |-> IF k = i * f.nb_cols + j THEN c ELSE f.entries[k]])

\* all square flows of the given dimension with finite entries at most k
Flows(dim, k) ==
    {Flow(dim, dim, e) : e \in [0..(dim * dim - 1) -> Coefs(k)]}

\* PartialOrd for Flow: self <= other
FlowLeq(f, other) ==
    \A i \in 0..(f.nb_rows * f.nb_rows - 1) : f.entries[i] <= other.entries[i]

\* PartialOrd for Flow: self < other
FlowLt(f, other) ==
    /\ FlowLeq(f, other)
    /\ ~(\A i \in 0..(f.nb_rows * f.nb_rows - 1) : f.entries[i] >= other.entries[i])

\* Flow::product, the (max, min) product
product(f, other) ==
    LET dim == f.nb_rows
    IN Flow(dim, dim,
            [k \in 0..(dim * dim - 1) |->
                LET i == k \div dim
                    j == k % dim
                    mins == {Min2(f.entries[i * dim + l], other.entries[l * dim + j]) :
                                l \in 0..(dim - 1)}
                IN IF OMEGA \in mins THEN OMEGA ELSE SetMax(mins \cup {0})])

\* Flow::get_omega_entries
get_omega_entries(left, right) ==
    LET dim == left.nb_rows
    IN Flow(dim, dim,
            [k \in 0..(dim * dim - 1) |->
                LET i == k \div dim
                    j == k % dim
                IN IF \E l \in 0..(dim - 1) :
                        left.entries[i * dim + l] = OMEGA /\ right.entries[l * dim + j] = OMEGA
                   THEN OMEGA ELSE C0])

\* Flow::is_idempotent
is_idempotent(f) == product(f, f) = f

RECURSIVE idempotent(_)
\* Flow::idempotent: square until nothing changes
idempotent(f) ==
    LET result_squared == product(f, f)
    IN IF f = result_squared THEN f ELSE idempotent(result_squared)

\* Flow::is_1
is_1(f, i, j) == FlowGet(f, i, j) = C1

\* Flow::is_omega
is_omega(f, i, j) == FlowGet(f, i, j) = OMEGA

\* the four nested loops of Flow::iteration: the entries of result set to omega
iteration_marks(f, result) ==
    LET dim == f.nb_rows
    IN Flow(dim, dim,
            [k \in 0..(dim * dim - 1) |->
                LET s == k \div dim
                    t == k % dim
                IN IF \E s0 \in 0..(dim - 1), t0 \in 0..(dim - 1) :
                        is_1(f, s0, t0) /\ is_omega(f, s, s0) /\ is_omega(f, t0, t)
                   THEN OMEGA ELSE result.entries[k]])

\* Flow::iteration
iteration(f) == iteration_marks(f, idempotent(f))

RECURSIVE CoefSumFrom(_, _, _, _)
\* the try_fold of Sum for Coef over `cols.iter().map(|&j| self.get(&i, &j))`,
\* cols a slice of column indices, from the partial sum on.  The slice is
\* gone through in its own order, an index that occurs twice is taken twice.
\* Each turn fetches entries[i * nb_cols + j], which panics when that index
\* is outside entries; the first omega ends the fold with omega and the
\* rest of the slice is not fetched; a finite value is added to the partial
\* sum in u8 (sum + v)
CoefSumFrom(f, i, cols, sum) ==
    IF cols = <<>> THEN sum
    ELSE IF (i * f.nb_cols + Head(cols)) \notin DOMAIN f.entries THEN Panic
    ELSE LET v == f.entries[i * f.nb_cols + Head(cols)]
         IN IF v = OMEGA THEN OMEGA
            ELSE IF sum + v > CoefMax /\ overflow_checks THEN Panic
            ELSE CoefSumFrom(f, i, Tail(cols), (sum + v) % (CoefMax + 1))

\* `target.iter().map(|&j| self.get(&i, &j)).sum::<Coef>()` of Flow::pre_image:
\* the sum of row i over the slice cols
CoefSumOver(f, i, cols) == CoefSumFrom(f, i, cols, 0)

\* Flow::pre_image, target a slice of column indices; a panic of the sum of
\* one row ends the call
pre_image(f, target) ==
    LET sums == [i \in 0..(f.nb_rows - 1) |-> CoefSumOver(f, i, target)]
    IN IF \E i \in 0..(f.nb_rows - 1) : sums[i] = Panic THEN PanicIdeal
       ELSE sums

\* Flow::get_lines: the possible rows of a state holding coef, with successors out
\* get_lines sending omega to every state, successor or not
get_lines_everywhere(out, coef, dim) ==
    IF coef = C0 THEN {[j \in 0..(dim - 1) |-> C0]}
    ELSE IF coef = OMEGA THEN {[j \in 0..(dim - 1) |-> OMEGA]}
    ELSE LET succ == SetToSeq(out)
             parts == get_partitions(coef, Len(succ))
         IN {[j \in 0..(dim - 1) |->
                IF j \in out
                THEN parts[q][CHOOSE r \in 1..Len(succ) : succ[r] = j]
                ELSE C0] : q \in 1..Len(parts)}

get_lines(out, coef, dim) ==
    IF coef = C0 THEN {[j \in 0..(dim - 1) |-> C0]}
    ELSE IF coef = OMEGA
    THEN {[j \in 0..(dim - 1) |-> IF j \in out THEN OMEGA ELSE C0]}
    ELSE LET succ == SetToSeq(out)
             parts == get_partitions(coef, Len(succ))
         IN {[j \in 0..(dim - 1) |->
                IF j \in out
                THEN parts[q][CHOOSE r \in 1..Len(succ) : succ[r] = j]
                ELSE C0] : q \in 1..Len(parts)}

\* Flow::from_domain_and_edges: panic!("Edge out of domain") on an edge with
\* an end outside 0..dim-1
from_domain_and_edges(domain, edges) ==
    LET dim == IdealLen(domain)
        lines == [i \in 0..(dim - 1) |->
                    get_lines(get_successors(edges, i), domain[i], dim)]
    IN IF \E f \in edges.edges : f[1] >= dim \/ f[2] >= dim THEN PanicFlows
       ELSE {Flow(dim, dim, [k \in 0..(dim * dim - 1) |-> x[k \div dim][k % dim]]) :
                x \in {y \in [0..(dim - 1) -> UNION {lines[i] : i \in 0..(dim - 1)}] :
                        \A i \in 0..(dim - 1) : y[i] \in lines[i]}}

\* Flow::edges_to: the rows with a non-zero entry in column j, in increasing order
edges_to(f, j) ==
    SelectSeq([r \in 1..f.nb_rows |-> r - 1], LAMBDA i : FlowGet(f, i, j) # C0)

\* Flow::edges_from: the columns with a non-zero entry in row i, in increasing order
edges_from(f, i) ==
    SelectSeq([r \in 1..f.nb_cols |-> r - 1], LAMBDA j : FlowGet(f, i, j) # C0)

\* --------------------------------------------------------------- semigroup
RECURSIVE semigroup_get_transports_rec(_, _, _, _, _)
\* semigroup::get_transports_rec: the flows inserted into flow_accumulator;
\* edges is the Vec of stray edges <<left, right>>, current_edge is 0-based
\* The bound nb_max + 1 of the loop over nb_here is computed in u8: for
\* nb_max = coef::MAX it panics under overflow_checks and wraps to 0, the
\* empty range, without.  edges[current_edge] is read out of bounds (and
\* debug_assert! fails) for current_edge >= edges.len()
semigroup_get_transports_rec(current_flow, edges, current_edge, nb_strays_left, nb_strays_right) ==
    LET left == edges[current_edge + 1][1]
        right == edges[current_edge + 1][2]
        strays_left == nb_strays_left[left + 1]
        strays_right == nb_strays_right[right + 1]
        nb_max == Min2(strays_left, strays_right)
        inserted ==
            UNION {semigroup_get_transports_rec(
                        FlowSet(current_flow, left, right, nb_here),
                        edges, current_edge + 1,
                        [nb_strays_left EXCEPT ![left + 1] = strays_left - nb_here],
                        [nb_strays_right EXCEPT ![right + 1] = strays_right - nb_here]) :
                    nb_here \in 0..nb_max}
    IN IF current_edge >= Len(edges) THEN PanicFlows
       ELSE IF current_edge = Len(edges) - 1
       THEN {FlowSet(current_flow, left, right, nb_max)}
       ELSE IF nb_max + 1 > CoefMax
       THEN (IF overflow_checks THEN PanicFlows ELSE {})
       ELSE IF PanicFlow \in inserted THEN PanicFlows
       ELSE inserted

\* get_transports giving an omega edge one stray more than the bound
semigroup_get_transports_omega_beyond(left_edges, right_edges, maximal_finite_coordinate) ==
    LET nb_rows == Len(left_edges)
        nb_cols == Len(right_edges)
        omega_flow == Flow(nb_rows, nb_cols, [k \in 0..(nb_rows * nb_cols - 1) |-> 0])
        nb_strays_left ==
            [i \in 1..nb_rows |-> IF left_edges[i] = OMEGA THEN maximal_finite_coordinate + 1
                                  ELSE left_edges[i]]
        nb_strays_right ==
            [j \in 1..nb_cols |-> IF right_edges[j] = OMEGA THEN maximal_finite_coordinate + 1
                                  ELSE right_edges[j]]
        all_pairs == [p \in 1..(nb_rows * nb_cols) |->
                        <<(p - 1) \div nb_cols, (p - 1) % nb_cols>>]
    IN semigroup_get_transports_rec(omega_flow, all_pairs, 0, nb_strays_left, nb_strays_right)

\* semigroup::get_transports: left_edges and right_edges are Vec<Coef>;
\* Flow::from_entries has the debug_assert! "Invalid size" on a flow with
\* rows and no column or columns and no row
semigroup_get_transports(left_edges, right_edges, maximal_finite_coordinate) ==
    LET nb_rows == Len(left_edges)
        nb_cols == Len(right_edges)
        omega_left == {i \in 0..(nb_rows - 1) : left_edges[i + 1] = OMEGA}
        omega_right == {j \in 0..(nb_cols - 1) : right_edges[j + 1] = OMEGA}
        omega_flow ==
            Flow(nb_rows, nb_cols,
                 [k \in 0..(nb_rows * nb_cols - 1) |->
                    IF (k \div nb_rows) \in omega_left /\ (k % nb_cols) \in omega_right
                    THEN OMEGA ELSE 0])
        nb_strays_left ==
            [i \in 1..nb_rows |-> IF left_edges[i] = OMEGA THEN maximal_finite_coordinate
                                  ELSE left_edges[i]]
        nb_strays_right ==
            [j \in 1..nb_cols |-> IF right_edges[j] = OMEGA THEN maximal_finite_coordinate
                                  ELSE right_edges[j]]
        all_pairs == [p \in 1..(nb_rows * nb_cols) |->
                        <<(p - 1) \div nb_cols, (p - 1) % nb_cols>>]
        stray_edges ==
            SelectSeq(all_pairs,
                      LAMBDA e : LET ci == left_edges[e[1] + 1]
                                     cj == right_edges[e[2] + 1]
                                 IN ~((ci = OMEGA /\ cj = OMEGA) \/ ci = 0 \/ cj = 0))
    IN IF debug_assertions /\ ~((nb_rows = 0 /\ nb_cols = 0) \/ (nb_rows > 0 /\ nb_cols > 0))
       THEN PanicFlows
       ELSE IF stray_edges = <<>> THEN {omega_flow}
       ELSE semigroup_get_transports_rec(omega_flow, stray_edges, 0,
                                         nb_strays_left, nb_strays_right)

\* a panic inside the loop of get_products_rec over all_indices
PanicTransport == <<PanicFlow, PanicFlow, PanicFlow>>

RECURSIVE apply_transport(_, _, _, _, _, _, _, _)
\* the loop of get_products_rec over all_indices for one transport t, from
\* position p on: <<current_flow, left, right>> afterwards
\* cf + tij, cl - tij and cr - tij are u8 operations; debug_assert! asks
\* for cl >= tij and cr >= tij
apply_transport(t, all_indices, p, k, maximal_finite_coordinate, current_flow, left, right) ==
    IF t = PanicFlow THEN PanicTransport
    ELSE IF p > Len(all_indices)
    THEN <<current_flow, left, right>>
    ELSE LET subi == all_indices[p][1]
             reali == all_indices[p][2]
             subj == all_indices[p][3]
             realj == all_indices[p][4]
             cf == FlowGet(current_flow, reali, realj)
             tij == FlowGet(t, subi, subj)
             newcf == CoefAdd(cf, tij)
             cl == FlowGet(left, reali, k)
             cr == FlowGet(right, k, realj)
         IN IF newcf = Panic THEN PanicTransport
            ELSE IF newcf > maximal_finite_coordinate
            THEN apply_transport(t, all_indices, p + 1, k, maximal_finite_coordinate,
                                 current_flow, left, right)
            ELSE IF debug_assertions /\ (cl < tij \/ cr < tij) THEN PanicTransport
            ELSE IF CoefSub(cl, tij) = Panic \/ CoefSub(cr, tij) = Panic
            THEN PanicTransport
            ELSE apply_transport(t, all_indices, p + 1, k, maximal_finite_coordinate,
                                 FlowSet(current_flow, reali, realj, newcf),
                                 FlowSet(left, reali, k, CoefSub(cl, tij)),
                                 FlowSet(right, k, realj, CoefSub(cr, tij)))

\* the pairs ((subi, reali), (subj, realj)) of get_products_rec, as 4-tuples
all_indices(left, right, k) ==
    [p \in 1..(Len(edges_to(left, k)) * Len(edges_from(right, k))) |->
        <<(p - 1) \div Len(edges_from(right, k)),
          edges_to(left, k)[((p - 1) \div Len(edges_from(right, k))) + 1],
          (p - 1) % Len(edges_from(right, k)),
          edges_from(right, k)[((p - 1) % Len(edges_from(right, k))) + 1]>>]

\* left_coefs of get_products_rec
left_coefs(left, k) ==
    [p \in 1..Len(edges_to(left, k)) |-> FlowGet(left, edges_to(left, k)[p], k)]

\* right_coefs of get_products_rec
right_coefs(right, k) ==
    [p \in 1..Len(edges_from(right, k)) |-> FlowGet(right, k, edges_from(right, k)[p])]

\* the body of `for t in transports` of get_products_rec up to the recursive
\* call: the triples <<current_flow, left, right>> it reaches
transport_outcomes(left, right, maximal_finite_coordinate, k, current_flow) ==
    {apply_transport(t, all_indices(left, right, k), 1, k, maximal_finite_coordinate,
                     current_flow, left, right) :
        t \in semigroup_get_transports(left_coefs(left, k), right_coefs(right, k),
                                       maximal_finite_coordinate)}

RECURSIVE get_products_rec(_, _, _, _, _, _)
\* FlowSemigroup::get_products_rec: the flows pushed to flow_accumulator
\* debug_assert!(k < dim) opens the function; a panic of get_transports, of
\* the loop over all_indices or of a recursive call ends it
get_products_rec(dim, left, right, maximal_finite_coordinate, k, current_flow) ==
    LET pushed ==
            UNION {IF after = PanicTransport THEN PanicFlows
                   ELSE IF k + 1 >= dim THEN {after[1]}
                   ELSE get_products_rec(dim, after[2], after[3],
                                         maximal_finite_coordinate, k + 1, after[1]) :
                   after \in transport_outcomes(left, right, maximal_finite_coordinate,
                                                k, current_flow)}
    IN IF debug_assertions /\ ~(k < dim) THEN PanicFlows
       ELSE IF edges_to(left, k) = <<>> \/ edges_from(right, k) = <<>>
       THEN IF k + 1 < dim
            THEN get_products_rec(dim, left, right, maximal_finite_coordinate, k + 1,
                                  current_flow)
            ELSE {current_flow}
       ELSE IF PanicFlow \in pushed THEN PanicFlows
       ELSE pushed

\* FlowSemigroup::get_products, as the set of the returned flows;
\* debug_assert_eq! on the rows of left and right, and the debug_assert! of
\* Flow::get_omega_entries on square flows of one dimension
get_products(left, right, maximal_finite_coordinate) ==
    IF debug_assertions
       /\ (left.nb_rows # right.nb_rows \/ left.nb_rows # left.nb_cols
           \/ right.nb_rows # right.nb_cols)
    THEN PanicFlows
    ELSE get_products_rec(left.nb_rows, left, right, maximal_finite_coordinate, 0,
                          get_omega_entries(left, right))

\* FlowSemigroup::is_covered
is_covered(flow, others) == \E other \in others : FlowLeq(flow, other)

\* FlowSemigroup::minimize
\* a minimize that removes nothing
semigroup_minimize_nothing(flows) == flows

semigroup_minimize(flows) ==
    {flow \in flows : ~(\E other \in flows : FlowLt(flow, other))}

\* the products computed for one flow popped from to_process_mult
\* the products computed with one more token than the bound allows
products_of_beyond_bound(flow, flows, maximal_finite_coordinate) ==
    UNION {get_products(other, flow, maximal_finite_coordinate + 1) : other \in flows}
    \cup UNION {get_products(flow, other, maximal_finite_coordinate + 1) : other \in flows}

products_of(flow, flows, maximal_finite_coordinate) ==
    IF maximal_finite_coordinate <= 1
    THEN {product(other, flow) : other \in flows}
         \cup {product(flow, other) : other \in flows}
    ELSE UNION {get_products(other, flow, maximal_finite_coordinate) : other \in flows}
         \cup UNION {get_products(flow, other, maximal_finite_coordinate) : other \in flows}

\* FlowSemigroup::get_path_problem_solution, target a slice of column
\* indices; a panic of one pre_image ends the call
get_path_problem_solution(flows, target) ==
    LET ideals == {pre_image(flow, target) : flow \in flows}
    IN IF PanicIdeal \in ideals THEN PanicIdeals ELSE ideals

\* the products the loop `for product in products` can still admit: a
\* product covered by self.flows is skipped whenever it is visited, and stays
\* covered since self.flows only grows in the loop
\* a loop that admits only the idempotent products
admissible_idempotent_only(products, flows) ==
    {prod \in products : ~is_covered(prod, flows) /\ is_idempotent(prod)}

admissible(products, flows) == {prod \in products : ~is_covered(prod, flows)}

\* the state of close_by_product_and_iteration
ClosureState(flows, mult, iter, changed) ==
    [flows |-> flows, mult |-> mult, iter |-> iter, changed |-> changed]

\* the body of `if !Self::is_covered(&product, &self.flows)` for a product
admit_product(st, prod) ==
    ClosureState(st.flows \cup {prod},
                 Append(st.mult, prod),
                 IF is_idempotent(prod) THEN Append(st.iter, prod) ELSE st.iter,
                 TRUE)

\* one turn of `while !to_process_iter.is_empty()`
admit_iteration(st) ==
    IF ~is_covered(iteration(Head(st.iter)), st.flows)
    THEN ClosureState(st.flows \cup {iteration(Head(st.iter))},
                      Append(st.mult, iteration(Head(st.iter))),
                      Tail(st.iter),
                      TRUE)
    ELSE ClosureState(st.flows, st.mult, Tail(st.iter), st.changed)

RECURSIVE visit_products(_, _)
\* `for product in products`: the states the loop can end in.  products is a
\* HashSet, which yields its elements in an order that changes from run to
\* run: the loop admits, one after the other, products that are not covered
\* when their turn comes, until every product is covered
visit_products(st, products) ==
    IF admissible(products, st.flows) = {} THEN {st}
    ELSE UNION {visit_products(admit_product(st, prod), products) :
                    prod \in admissible(products, st.flows)}

RECURSIVE close_by_product_and_iteration(_, _, _)
\* FlowSemigroup::close_by_product_and_iteration from the position pc on: the
\* values self.flows can have at return, one for each order in which the
\* HashSets of products are gone through
close_by_product_and_iteration(st, pc, maximal_finite_coordinate) ==
    IF pc = "mult"
    THEN IF st.mult # <<>>
         THEN UNION {close_by_product_and_iteration(visited, "mult",
                                                    maximal_finite_coordinate) :
                        visited \in visit_products(
                            ClosureState(st.flows, Tail(st.mult), st.iter, st.changed),
                            products_of(Head(st.mult), st.flows,
                                        maximal_finite_coordinate))}
         ELSE close_by_product_and_iteration(st, "iter", maximal_finite_coordinate)
    ELSE IF st.iter # <<>>
         THEN close_by_product_and_iteration(admit_iteration(st), "iter",
                                             maximal_finite_coordinate)
         ELSE IF ~st.changed THEN {semigroup_minimize(st.flows)}
              ELSE close_by_product_and_iteration(
                       ClosureState(st.flows, st.mult, st.iter, FALSE),
                       "mult", maximal_finite_coordinate)

RECURSIVE iteration_orders(_)
\* the orders in which `iter()` can yield the elements of a HashSet: the
\* order depends on the hash seed of the run, every order of the elements
\* is possible; two iterations of a set that was not changed in between
\* yield the same order
iteration_orders(S) ==
    IF S = {} THEN {<<>>}
    ELSE UNION {{<<x>> \o order : order \in iteration_orders(S \ {x})} : x \in S}

\* FlowSemigroup::compute: the semigroups it can return, one for each order
\* in which self.flows is collected into the two queues and in which the
\* products are gone through
compute(flows, maximal_finite_coordinate) ==
    UNION {close_by_product_and_iteration(
               ClosureState(flows, order, SelectSeq(order, is_idempotent), FALSE),
               "mult", maximal_finite_coordinate) :
            order \in iteration_orders(flows)}

\* --------------------------------------------------------------------- nfa
\* an Nfa: transitions are triples <<from, label, to>>
Nfa(nb_states, initial, accepting, transitions) ==
    [nb_states |-> nb_states, initial |-> initial, accepting |-> accepting,
     transitions |-> transitions]

\* Nfa::get_alphabet: the labels that appear on a transition
get_alphabet(nfa) == {t[2] : t \in nfa.transitions}

\* Nfa::get_support
get_support(nfa, action) ==
    Graph(nfa.nb_states, {<<t[1], t[3]>> : t \in {u \in nfa.transitions : u[2] = action}})

\* Nfa::get_edges
get_edges(nfa) == [action \in get_alphabet(nfa) |-> get_support(nfa, action)]

\* Nfa::is_complete: every state has a successor by every letter
is_complete(nfa) ==
    \A s \in 0..(nfa.nb_states - 1) : \A a \in get_alphabet(nfa) :
        \E t \in nfa.transitions : t[1] = s /\ t[2] = a

\* Nfa::complete: a fresh non-accepting absorbing sink state receives every
\* missing transition
complete(nfa) ==
    IF is_complete(nfa) THEN nfa
    ELSE Nfa(nfa.nb_states + 1, nfa.initial, nfa.accepting,
             UNION {nfa.transitions,
                    {<<x[1], x[2], nfa.nb_states>> :
                        x \in {y \in (0..(nfa.nb_states - 1)) \X get_alphabet(nfa) :
                                ~\E t \in nfa.transitions : t[1] = y[1] /\ t[2] = y[2]}},
                    {<<nfa.nb_states, a, nfa.nb_states>> : a \in get_alphabet(nfa)}})

\* an Nfa with its Vec of state labels; a label is the rank of the String in
\* the order of String, so that equal ranks are equal labels
NfaOfStates(states, initial, accepting, transitions) ==
    [states |-> states, nb_states |-> Len(states), initial |-> initial,
     accepting |-> accepting, transitions |-> transitions]

\* std::cmp::Ordering
Less == 0 - 1
Equal == 0
Greater == 1

\* Ord::cmp on two labels
LabelCmp(x, y) == IF x < y THEN Less ELSE IF x > y THEN Greater ELSE Equal

RECURSIVE insert_tail(_, _, _)
\* one step of the stable insertion sort of slice::sort_by: x, taken after
\* the sorted prefix v, moves left past the elements it is Less than
insert_tail(v, x, cmp) ==
    IF v = <<>> THEN <<x>>
    ELSE IF cmp[x][v[Len(v)]] = Less
         THEN Append(insert_tail(SubSeq(v, 1, Len(v) - 1), x, cmp), v[Len(v)])
         ELSE Append(v, x)

RECURSIVE sort_by_from(_, _, _)
sort_by_from(sorted, rest, cmp) ==
    IF rest = <<>> THEN sorted
    ELSE sort_by_from(insert_tail(sorted, Head(rest), cmp), Tail(rest), cmp)

\* slice::sort_by on the Vec v with the comparison cmp[a][b], when cmp is a
\* total preorder: the stable sorted order
sort_by(v, cmp) == sort_by_from(<<>>, v, cmp)

\* the comparison is a total order in the sense slice::sort_by requires
is_total_order(S, cmp) ==
    /\ \A a \in S : \A b \in S : cmp[a][b] = 0 - cmp[b][a]
    /\ \A a \in S : \A b \in S : \A c \in S :
          /\ (cmp[a][b] = Less /\ cmp[b][c] = Less) => cmp[a][c] = Less
          /\ (cmp[a][b] = Equal /\ cmp[b][c] = Equal) => cmp[a][c] = Equal
          /\ (cmp[a][b] = Equal /\ cmp[b][c] = Less) => cmp[a][c] = Less
          /\ (cmp[a][b] = Less /\ cmp[b][c] = Equal) => cmp[a][c] = Less

\* the Vecs that hold every index 0..n-1 once
Reorderings(n) ==
    {v \in [1..n -> 0..(n - 1)] : \A i \in 1..n : \A j \in 1..n : v[i] = v[j] => i = j}

\* the local old_to_new of Nfa::apply_reordering, as a function of the index
old_to_new(new_order) ==
    [k \in 0..(Len(new_order) - 1) |->
        (CHOOSE p \in 1..Len(new_order) :
            /\ new_order[new_order[p] + 1] = new_order[k + 1]
            /\ \A q \in 1..(p - 1) : new_order[new_order[q] + 1] # new_order[k + 1]) - 1]

\* apply_reordering that leaves the accepting states where they were
apply_reordering_keeping_accepting(nfa, new_order) ==
    NfaOfStates([i \in 1..Len(new_order) |-> nfa.states[new_order[i] + 1]],
                {old_to_new(new_order)[i] : i \in nfa.initial},
                nfa.accepting,
                {<<old_to_new(new_order)[t[1]], t[2], old_to_new(new_order)[t[3]]>> :
                    t \in nfa.transitions})

\* Nfa::apply_reordering
apply_reordering(nfa, new_order) ==
    NfaOfStates([i \in 1..Len(new_order) |-> nfa.states[new_order[i] + 1]],
                {old_to_new(new_order)[i] : i \in nfa.initial},
                {old_to_new(new_order)[i] : i \in nfa.accepting},
                {<<old_to_new(new_order)[t[1]], t[2], old_to_new(new_order)[t[3]]>> :
                    t \in nfa.transitions})

RECURSIVE successor_relation_loop(_, _)
\* the loop of Nfa::sort_states_topologically that closes successor_relation
\* under the transitions
successor_relation_loop(nfa, successor_relation) ==
    LET next == [state \in DOMAIN successor_relation |->
                    successor_relation[state] \cup
                    {t[3] : t \in {u \in nfa.transitions :
                                      u[1] \in successor_relation[state]}}]
    IN IF next = successor_relation THEN successor_relation
       ELSE successor_relation_loop(nfa, next)

\* successor_relation of Nfa::sort_states_topologically after the loop
successor_relation(nfa) ==
    successor_relation_loop(nfa, [state \in 0..(nfa.nb_states - 1) |-> {state}])

\* the closure handed to sort_by in Nfa::sort_states_topologically
topological_cmp(nfa) ==
    LET succ == successor_relation(nfa)
    IN [a \in 0..(nfa.nb_states - 1) |-> [b \in 0..(nfa.nb_states - 1) |->
          IF b \in succ[a] /\ a \in succ[b] THEN Equal
          ELSE IF b \in succ[a] THEN Less
          ELSE IF a \in succ[b] THEN Greater
          ELSE LabelCmp(nfa.states[a + 1], nfa.states[b + 1])]]

\* the comparison of sort_by_key in Nfa::sort, by the label
alphabetical_cmp(nfa) ==
    [a \in 0..(nfa.nb_states - 1) |-> [b \in 0..(nfa.nb_states - 1) |->
        LabelCmp(nfa.states[a + 1], nfa.states[b + 1])]]

\* the comparison Nfa::sort sorts the state indices with
sort_cmp(nfa, state_ordering) ==
    IF state_ordering = "Topological" THEN topological_cmp(nfa) ELSE alphabetical_cmp(nfa)

\* the orders states_indices can be in after the sort of Nfa::sort: the
\* stable sorted order, or any order when the comparison is not a total
\* order, for which slice::sort_by leaves the order unspecified
sorted_indices(nfa, state_ordering) ==
    LET indices == [i \in 1..nfa.nb_states |-> i - 1]
        cmp == sort_cmp(nfa, state_ordering)
    IN IF is_total_order(0..(nfa.nb_states - 1), cmp) THEN {sort_by(indices, cmp)}
       ELSE Reorderings(nfa.nb_states)

\* ---------------------------------------------------------------- strategy
\* Strategy::get_maximal_strategy
get_maximal_strategy(dim, letters) == [l \in letters |-> {IdealNew(dim, OMEGA)}]

\* Strategy::is_defined_on
is_defined_on(strategy, source) ==
    \E l \in DOMAIN strategy : contains(strategy[l], source)

\* Strategy::restrict_to, the flag it returns
strategy_restrict_to_ret(strategy, safe, edges_per_letter, maximal_finite_value) ==
    \E a \in DOMAIN strategy :
        restrict_to_ret(strategy[a],
                        safe_pre_image(safe, edges_per_letter[a], maximal_finite_value))

\* Strategy::restrict_to, the strategy afterwards
strategy_restrict_to(strategy, safe, edges_per_letter, maximal_finite_value) ==
    [a \in DOMAIN strategy |->
        restrict_to(strategy[a],
                    safe_pre_image(safe, edges_per_letter[a], maximal_finite_value))]

RECURSIVE strategy_restrict_to_memoizer(_, _, _, _, _)
\* Strategy::restrict_to, POSSIBLE_COEFS_CACHE after the calls of
\* safe_pre_image for the letters `letters`, cache being its value before.
\* Each call adds at most its own key, with a value that depends on the key
\* only: the order in which the HashMap yields the letters does not show
strategy_restrict_to_memoizer(cache, letters, safe, edges_per_letter, maximal_finite_value) ==
    IF letters = {} THEN cache
    ELSE LET a == CHOOSE l \in letters : TRUE
         IN strategy_restrict_to_memoizer(
                safe_pre_image_memoizer(cache, safe, edges_per_letter[a],
                                        maximal_finite_value),
                letters \ {a}, safe, edges_per_letter, maximal_finite_value)

\* ------------------------------------------------------------------ solver
\* solver::get_omega_ideal, states a slice of state indices: omega at every
\* state of the slice, whatever its order; `ideal.set(*state, OMEGA)` panics
\* for a state that is not below dim
get_omega_ideal(dim, states) ==
    IF \E k \in DOMAIN states : states[k] >= dim THEN PanicIdeal
    ELSE [i \in 0..(dim - 1) |->
            IF \E k \in DOMAIN states : states[k] = i THEN OMEGA ELSE C0]

\* solver::compute_action_flows
compute_action_flows(strategy, edges) ==
    UNION {UNION {from_domain_and_edges(ideal, edges[action]) : ideal \in strategy[action]} :
            action \in DOMAIN strategy}

\* update_strategy handing the rounded downset over without minimize
winning_downset_not_minimized(flows, dim, final_states, maximal_finite_value) ==
    round_down(insert(get_path_problem_solution(flows, final_states),
                      get_omega_ideal(dim, final_states)),
               maximal_finite_value, dim)

\* update_strategy from the semigroup on: the winning downset of the path
\* problem, final_states being the slice solve collected from nfa.accepting;
\* a panic of get_omega_ideal or of get_path_problem_solution ends the call
winning_downset(flows, dim, final_states, maximal_finite_value) ==
    IF get_omega_ideal(dim, final_states) = PanicIdeal THEN PanicIdeals
    ELSE IF get_path_problem_solution(flows, final_states) = PanicIdeals THEN PanicIdeals
    ELSE minimize(round_down(insert(get_path_problem_solution(flows, final_states),
                                    get_omega_ideal(dim, final_states)),
                             maximal_finite_value, dim))

\* `strategy.restrict_to(safe, edges, maximal_finite_value)` at the end of
\* update_strategy: the flag it returns, the strategy afterwards and
\* POSSIBLE_COEFS_CACHE afterwards, cache being its value before
strategy_restricted(cache, strategy, safe, edges, maximal_finite_value) ==
    [changed |-> strategy_restrict_to_ret(strategy, safe, edges, maximal_finite_value),
     strategy |-> strategy_restrict_to(strategy, safe, edges, maximal_finite_value),
     memoizer |-> strategy_restrict_to_memoizer(cache, DOMAIN strategy, safe, edges,
                                                maximal_finite_value)]

\* solver::update_strategy: its possible outcomes, one for each semigroup
\* FlowSemigroup::compute can return: the flag it returns, the strategy
\* afterwards and POSSIBLE_COEFS_CACHE afterwards, cache being its value
\* when the call begins
update_strategy(cache, dim, strategy, final_states, edges, maximal_finite_value) ==
    {strategy_restricted(cache, strategy,
                         winning_downset(semigroup, dim, final_states,
                                         maximal_finite_value),
                         edges, maximal_finite_value) :
        semigroup \in compute(compute_action_flows(strategy, edges), maximal_finite_value)}

RECURSIVE compute_maximal_winning_strategy_loop(_, _, _, _, _)
\* the `loop` of compute_maximal_winning_strategy: its possible outcomes,
\* each the strategy it returns and POSSIBLE_COEFS_CACHE afterwards
compute_maximal_winning_strategy_loop(cache, dim, strategy, final_states, edges) ==
    UNION {IF ~u.changed THEN {[strategy |-> u.strategy, memoizer |-> u.memoizer]}
           ELSE compute_maximal_winning_strategy_loop(u.memoizer, dim, u.strategy,
                                                      final_states, edges) :
            u \in update_strategy(cache, dim, strategy, final_states, edges,
                                  dim % (CoefMax + 1))}

\* solver::compute_maximal_winning_strategy, the strategies it can return
compute_maximal_winning_strategy(cache, dim, final_states, edges, letters) ==
    compute_maximal_winning_strategy_loop(cache, dim, get_maximal_strategy(dim, letters),
                                          final_states, edges)

RECURSIVE compute_control_problem_solution_loop(_, _, _, _, _, _, _)
\* the `for maximal_finite_value in 1..dim as coef` of
\* compute_control_problem_solution, from one turn of its inner loop on: its
\* possible outcomes
compute_control_problem_solution_loop(cache, dim, source, strategy, final_states, edges, maximal_finite_value) ==
    IF maximal_finite_value >= dim % (CoefMax + 1) THEN {[strategy |-> strategy, memoizer |-> cache]}
    ELSE UNION {IF u.changed /\ is_defined_on(u.strategy, source)
                THEN compute_control_problem_solution_loop(
                         u.memoizer, dim, source, u.strategy, final_states, edges,
                         maximal_finite_value)
                ELSE IF is_defined_on(u.strategy, source)
                THEN {[strategy |-> u.strategy, memoizer |-> u.memoizer]}
                ELSE compute_control_problem_solution_loop(
                         u.memoizer, dim, source, u.strategy, final_states, edges,
                         maximal_finite_value + 1) :
                u \in update_strategy(cache, dim, strategy, final_states, edges,
                                      maximal_finite_value)}

\* solver::compute_control_problem_solution, the strategies it can return
compute_control_problem_solution(cache, dim, source, final_states, edges, letters) ==
    compute_control_problem_solution_loop(cache, dim, source,
                                          get_maximal_strategy(dim, letters),
                                          final_states, edges, 1)

\* the ideal `source` of solver::solve; the Vec it is built from is collected
\* from the HashSet nfa.initial, and its order does not show in the ideal
solve_source(nfa) == get_omega_ideal(nfa.nb_states, SetToSeq(nfa.initial))

\* solver::solve, the field winning_strategy of the Solution it can return
\* and POSSIBLE_COEFS_CACHE afterwards: final_states is the Vec that
\* Nfa::final_states collects from the HashSet nfa.accepting, in any order
solve_winning_strategy(cache, nfa, output) ==
    UNION {IF output = "Strategy"
           THEN compute_maximal_winning_strategy(cache, nfa.nb_states, final_states,
                                                 get_edges(nfa), get_alphabet(nfa))
           ELSE compute_control_problem_solution(cache, nfa.nb_states, solve_source(nfa),
                                                 final_states, get_edges(nfa),
                                                 get_alphabet(nfa)) :
            final_states \in iteration_orders(nfa.accepting)}

\* solver::solve, the values the field is_controllable of the Solution it
\* returns can have
solve(cache, nfa, output) ==
    {is_defined_on(solved.strategy, solve_source(nfa)) :
        solved \in solve_winning_strategy(cache, nfa, output)}

\* ================================================================ state
VARIABLES
    \* safe pre-image computation: the downset (self), the graph, the bound,
    \* the returned downset and the position of the call
    piDownset, piEdges, piK, piResult, piPc,
    \* a DownSet object under mutation: the stored HashSet of ideals, the
    \* name of the last public mutation and the flag it returned
    \* (dsPrev and dsArg remember the stored set before it and its argument)
    dsSelf, dsOp, dsRet, dsPrev, dsArg,
    \* FlowSemigroup::compute in progress: the seeds and the bound it was
    \* called with, self.flows, the two queues, the flag `changed`, the
    \* products of the popped flow still to be visited, and the position
    sgSeeds, sgK, sgFlows, to_process_mult, to_process_iter, sgChanged, sgProducts, sgPc,
    \* solve in progress: the Nfa, the SolverOutput, the strategy, the value of
    \* maximal_finite_value, the number of calls of update_strategy made, the
    \* field is_controllable of the Solution and the position
    svNfa, svOutput, svStrategy, svK, svStep, is_controllable, svPc,
    \* the local final_states of solve: the Vec that Nfa::final_states
    \* collected from the HashSet of the accepting states
    final_states,
    \* update_strategy in progress: its local semigroup, the winning downset
    \* it hands to Strategy::restrict_to as `safe`, the letters the loop of
    \* restrict_to has still to take from the HashMap, the letter `a` it is
    \* at and its local `result`
    svSemigroup, svSafe, svLetters, svLetter, svResult,
    \* Flow::iteration in progress: the flow self, the local `result` and the
    \* position
    flSelf, flResult, flPc,
    \* one call of a function of flow.rs or semigroup.rs: its name, its
    \* arguments and what it returned
    fnOp, fnArgs, fnRet, fnPc,
    \* POSSIBLE_COEFS_CACHE: the Memoizer, the holder of its Mutex (0: none),
    \* whether the Mutex is poisoned (a thread panicked while it held the
    \* guard), how many times the closure `compute` ran for each key, and the
    \* threads inside DownSet::safe_pre_image with their arguments, locals and
    \* position
    memoizer, mzMutex, mzPoisoned, mzComputed, mzThread,
    \* an Nfa being loaded and solved: the Nfa as parsed, the Nfa (self of
    \* Nfa::sort), the
    \* StateOrdering and the SolverOutput asked for, the order of the state
    \* indices that sort applied, the Solution and the position
    ldParsed, ldNfa, state_ordering, ldOutput, ldOrder, ldSolution, ldPc,
    \* the closure of DownSet::get_image at work on one choice per state: the
    \* state whose choice is added next, the local `result`, and whether an
    \* addition of two finite coefficients wrapped
    imIndex, imResult, imWrapped

piVars == <<piDownset, piEdges, piK, piResult, piPc>>
dsVars == <<dsSelf, dsOp, dsRet, dsPrev, dsArg>>
sgVars == <<sgSeeds, sgK, sgFlows, to_process_mult, to_process_iter, sgChanged,
           sgProducts, sgPc>>
svVars == <<svNfa, svOutput, svStrategy, svK, svStep, is_controllable, svPc, final_states,
           svSemigroup, svSafe, svLetters, svLetter, svResult>>
flVars == <<flSelf, flResult, flPc>>
fnVars == <<fnOp, fnArgs, fnRet, fnPc>>
mzVars == <<memoizer, mzMutex, mzPoisoned, mzComputed, mzThread>>
ldVars == <<ldParsed, ldNfa, state_ordering, ldOutput, ldOrder, ldSolution, ldPc>>
imVars == <<imIndex, imResult, imWrapped>>
exVars == <<flVars, fnVars, mzVars, ldVars, imVars>>
vars == <<piVars, dsVars, sgVars, svVars, exVars>>

RECURSIVE SubsetsUpTo(_, _)
\* the subsets of S with at most k elements
SubsetsUpTo(S, k) ==
    IF k = 0 THEN {{}}
    ELSE LET P == SubsetsUpTo(S, k - 1) IN P \cup {q \cup {x} : q \in P, x \in S}

\* the downsets of one dimension drawn as inputs: at most MaxIdeals ideals
\* with finite coefficients at most MaxK (DownSet::from_vecs stores them as given)
DownSetsOfDim(dimension) == SubsetsUpTo(Ideals(dimension, MaxK), MaxIdeals)

\* no two distinct stored ideals are comparable
IsAntichain(D) == \A x \in D : \A y \in D : x # y => ~IdealLeq(x, y)

PiIdle ==
    /\ piDownset = {}
    /\ piEdges = Graph(0, {})
    /\ piK = 0
    /\ piResult = {}
    /\ piPc = "idle"

DsIdle ==
    /\ dsSelf = {}
    /\ dsOp = "idle"
    /\ dsRet = FALSE
    /\ dsPrev = {}
    /\ dsArg = {}

SgIdle ==
    /\ sgSeeds = {}
    /\ sgK = 0
    /\ sgFlows = {}
    /\ to_process_mult = <<>>
    /\ to_process_iter = <<>>
    /\ sgChanged = FALSE
    /\ sgProducts = {}
    /\ sgPc = "idle"

SvIdle ==
    /\ svNfa = Nfa(0, {}, {}, {})
    /\ svOutput = "none"
    /\ svStrategy = <<>>
    /\ svK = 0
    /\ svStep = 0
    /\ is_controllable = FALSE
    /\ svPc = "idle"
    /\ final_states = <<>>
    /\ svSemigroup = {}
    /\ svSafe = {}
    /\ svLetters = {}
    /\ svLetter = ""
    /\ svResult = FALSE

FlIdle ==
    /\ flSelf = Flow(0, 0, <<>>)
    /\ flResult = Flow(0, 0, <<>>)
    /\ flPc = "idle"

FnIdle ==
    /\ fnOp = "idle"
    /\ fnArgs = <<>>
    /\ fnRet = {}
    /\ fnPc = "idle"

MzIdle ==
    /\ memoizer = [cache |-> <<>>]
    /\ mzMutex = 0
    /\ mzPoisoned = FALSE
    /\ mzComputed = <<>>
    /\ mzThread = <<>>

LdIdle ==
    /\ ldParsed = NfaOfStates(<<>>, {}, {}, {})
    /\ ldNfa = NfaOfStates(<<>>, {}, {}, {})
    /\ state_ordering = "Input"
    /\ ldOutput = "YesNo"
    /\ ldOrder = <<>>
    /\ ldSolution = [is_controllable |-> FALSE, winning_strategy |-> <<>>]
    /\ ldPc = "idle"

ImIdle ==
    /\ imIndex = 0
    /\ imResult = <<>>
    /\ imWrapped = FALSE

ExIdle == FlIdle /\ FnIdle /\ MzIdle /\ LdIdle /\ ImIdle

\* ------------------------------------ the calls of DownSet::safe_pre_image
\* a thread entering safe_pre_image with the arguments `call`: the arguments,
\* the locals possible_coefs, candidates and result, and the position
MzThread(call) ==
    [call |-> call, possible_coefs |-> <<>>, candidates |-> {}, result |-> {},
     pc |-> "enter"]

\* the only thread of a sequential caller entering
\* self.safe_pre_image(edges, maximal_finite_coordinate)
SafePreImageCall(self, edges, maximal_finite_coordinate) ==
    <<MzThread([self |-> self, edges |-> edges,
                maximal_finite_coordinate |-> maximal_finite_coordinate])>>

\* safe_pre_image up to `POSSIBLE_COEFS_CACHE.lock()`: the early return, which
\* leaves the Mutex alone, or the key is built
Enter(t) ==
    /\ mzThread[t].pc = "enter"
    /\ LET call == mzThread[t].call
       IN IF call.edges.dim = 0 \/ call.self = {}
          THEN mzThread' = [mzThread EXCEPT ![t].pc = "done", ![t].result = {}]
          ELSE mzThread' = [mzThread EXCEPT
                   ![t].pc = "lock",
                   ![t].possible_coefs =
                       safe_pre_image_possible_coefs(call.self, call.edges,
                                                     call.maximal_finite_coordinate)]
    /\ UNCHANGED <<memoizer, mzMutex, mzPoisoned, mzComputed, piVars, dsVars, sgVars,
                   svVars, flVars, fnVars, ldVars, imVars>>

\* `.lock().unwrap()`: the thread waits until the Mutex is free; it takes
\* it, or, the Mutex being poisoned, lock() returns Err and unwrap panics,
\* which drops the guard held by the error
Lock(t) ==
    /\ mzThread[t].pc = "lock"
    /\ mzMutex = 0
    /\ IF mzPoisoned
       THEN /\ mzThread' = [mzThread EXCEPT ![t].pc = "panicked"]
            /\ UNCHANGED mzMutex
       ELSE /\ mzThread' = [mzThread EXCEPT ![t].pc = "get"]
            /\ mzMutex' = t
    /\ UNCHANGED <<memoizer, mzPoisoned, mzComputed, piVars, dsVars, sgVars, svVars,
                   flVars, fnVars, ldVars, imVars>>

\* `.get(possible_coefs)` on the guarded Memoizer; a panic of the closure
\* unwinds through the guard, which poisons the Mutex and releases it
Get(t) ==
    /\ mzThread[t].pc = "get"
    /\ mzMutex = t
    /\ LET key == mzThread[t].possible_coefs
           got == memoizer_get(memoizer, key)
       IN /\ memoizer' = got.self
          /\ mzComputed' =
                IF ~got.computed THEN mzComputed
                ELSE [k \in DOMAIN mzComputed \cup {key} |->
                        IF k \in DOMAIN mzComputed
                        THEN mzComputed[k] + (IF k = key THEN 1 ELSE 0)
                        ELSE 1]
          /\ IF got.value = PanicIdeals
             THEN /\ mzThread' = [mzThread EXCEPT ![t].pc = "panicked"]
                  /\ mzMutex' = 0
                  /\ mzPoisoned' = TRUE
             ELSE /\ mzThread' = [mzThread EXCEPT ![t].pc = "unlock",
                                                  ![t].candidates = got.value]
                  /\ UNCHANGED <<mzMutex, mzPoisoned>>
    /\ UNCHANGED <<piVars, dsVars, sgVars, svVars, flVars, fnVars, ldVars, imVars>>

\* the MutexGuard is dropped at the end of the `let candidates` statement
Unlock(t) ==
    /\ mzThread[t].pc = "unlock"
    /\ mzMutex = t
    /\ mzMutex' = 0
    /\ mzThread' = [mzThread EXCEPT ![t].pc = "filter"]
    /\ UNCHANGED <<memoizer, mzPoisoned, mzComputed, piVars, dsVars, sgVars, svVars,
                   flVars, fnVars, ldVars, imVars>>

\* the parallel filter of the candidates, the inserts and the minimize, made
\* without the Mutex; a panic of one is_safe_with_roundup ends the call
Filter(t) ==
    /\ mzThread[t].pc = "filter"
    /\ LET call == mzThread[t].call
           result == safe_pre_image_filter(call.self, call.edges,
                                           call.maximal_finite_coordinate,
                                           mzThread[t].candidates)
       IN IF result = PanicIdeals
          THEN mzThread' = [mzThread EXCEPT ![t].pc = "panicked"]
          ELSE mzThread' = [mzThread EXCEPT ![t].pc = "done", ![t].result = result]
    /\ UNCHANGED <<memoizer, mzMutex, mzPoisoned, mzComputed, piVars, dsVars, sgVars,
                   svVars, flVars, fnVars, ldVars, imVars>>

\* one step of a thread that is inside safe_pre_image
SafePreImageStep ==
    \E t \in DOMAIN mzThread : Enter(t) \/ Lock(t) \/ Get(t) \/ Unlock(t) \/ Filter(t)

\* the call of safe_pre_image by the only thread there is has ended
SafePreImageEnded == mzThread # <<>> /\ mzThread[1].pc \in {"done", "panicked"}

\* ------------------------------------------------- safe pre-image machine
PiInit ==
    /\ \E dimension \in 1..MaxDim :
          /\ piDownset \in DownSetsOfDim(dimension)
          /\ piEdges \in Graphs(dimension)
    /\ piK \in 1..MaxK
    /\ piResult = {}
    /\ piPc = "call"
    /\ DsIdle
    /\ SgIdle
    /\ SvIdle
    /\ ExIdle

\* the caller enters piDownset.safe_pre_image(piEdges, piK)
SafePreImage ==
    /\ piPc = "call"
    /\ mzThread' = SafePreImageCall(piDownset, piEdges, piK)
    /\ piPc' = "safe_pre_image"
    /\ UNCHANGED <<piDownset, piEdges, piK, piResult, dsVars, sgVars, svVars, flVars,
                   fnVars, memoizer, mzMutex, mzPoisoned, mzComputed, ldVars, imVars>>

\* safe_pre_image returns `result` to the caller, or its panic reaches it
SafePreImageReturn ==
    /\ piPc = "safe_pre_image"
    /\ SafePreImageEnded
    /\ IF mzThread[1].pc = "panicked"
       THEN piPc' = "panicked" /\ UNCHANGED piResult
       ELSE piPc' = "done" /\ piResult' = mzThread[1].result
    /\ mzThread' = <<>>
    /\ UNCHANGED <<piDownset, piEdges, piK, dsVars, sgVars, svVars, flVars, fnVars,
                   memoizer, mzMutex, mzPoisoned, mzComputed, ldVars, imVars>>

PiNext == SafePreImage \/ SafePreImageStep \/ SafePreImageReturn

SpecPreImage == PiInit /\ [][PiNext]_vars

\* ------------------------------------------------------------ C2
RECURSIVE EdgeSum(_, _)
\* the sum of a distribution over a set of edges, omega absorbing
EdgeSum(d, E) ==
    IF E = {} THEN 0
    ELSE LET e == CHOOSE f \in E : TRUE
             rest == EdgeSum(d, E \ {e})
         IN IF d[e] = OMEGA \/ rest = OMEGA THEN OMEGA ELSE d[e] + rest

\* the ways of distributing configuration x along the edges of g: a state
\* holding omega sends omega along each of its edges, a state holding a finite
\* count sends finite counts that add up to it
Distributions(x, g) ==
    {d \in [g.edges -> Coefs(MaxK)] :
        \A i \in DOMAIN x :
            LET out == {e \in g.edges : e[1] = i}
            IN IF x[i] = OMEGA THEN \A e \in out : d[e] = OMEGA
               ELSE /\ \A e \in out : d[e] # OMEGA
                    /\ EdgeSum(d, out) = x[i]}

\* the successor configurations of x under g, finite sums above k read as omega
SuccessorConfigurations(x, g, k) ==
    {[j \in DOMAIN x |->
        LET total == EdgeSum(d, {e \in g.edges : e[2] = j})
        IN IF total # OMEGA /\ total > k THEN OMEGA ELSE total] :
     d \in Distributions(x, g)}

\* x loses no token and every successor configuration of x lies in D
SafeConfiguration(D, x, g, k) ==
    /\ \A i \in DOMAIN x : x[i] # 0 => \E e \in g.edges : e[1] = i
    /\ \A y \in SuccessorConfigurations(x, g, k) : \E J \in D : IdealLeq(y, J)

\* C2: once safe_pre_image(G, K) has returned for a downset D, a configuration
\* x with coefficients in {0..K} or omega is contained in the result iff
\* (a) no state holding tokens lacks a successor and (b) every successor
\* configuration of x, finite sums above K read as omega, is contained in D;
\* and the result is empty when D is empty
C2_SafePreImageExact ==
    piPc = "done" =>
        /\ \A x \in Ideals(piEdges.dim, piK) :
              contains(piResult, x) <=> SafeConfiguration(piDownset, x, piEdges, piK)
        /\ piDownset = {} => piResult = {}

\* C2 witness: a returned pre-image holding a configuration that splits two
\* tokens over two successors, while some configuration that loses no token is
\* rejected because one of its successor configurations leaves D
C2_Witness ==
    /\ piPc = "done"
    /\ \E x \in piResult : \E i \in DOMAIN x :
          x[i] = 2 /\ Cardinality(get_successors(piEdges, i)) = 2
    /\ \E x \in Ideals(piEdges.dim, piK) :
          /\ ~contains(piResult, x)
          /\ \A i \in DOMAIN x : x[i] # 0 => get_successors(piEdges, i) # {}

\* ------------------------------------------------------- DownSet machine
DsInit ==
    /\ \E dimension \in 1..MaxDim :
          dsSelf \in {D \in DownSetsOfDim(dimension) : D # {} /\ IsAntichain(D)}
    /\ dsOp = "new"
    /\ dsRet = FALSE
    /\ dsPrev = {}
    /\ dsArg = {}
    /\ PiIdle
    /\ SgIdle
    /\ SvIdle
    /\ ExIdle

\* the dimension shared by the stored ideals
DsDim == IdealLen(CHOOSE x \in dsSelf \cup dsPrev : TRUE)

\* DownSet::insert(ideal)
Insert ==
    /\ dsSelf \cup dsPrev # {}
    /\ Cardinality(dsSelf) < MaxIdeals
    /\ \E ideal \in Ideals(DsDim, MaxK) :
          /\ dsSelf' = insert(dsSelf, ideal)
          /\ dsRet' = insert_ret(dsSelf, ideal)
          /\ dsArg' = {ideal}
    /\ dsOp' = "insert"
    /\ dsPrev' = dsSelf
    /\ UNCHANGED <<piVars, sgVars, svVars, exVars>>

\* DownSet::minimize()
Minimize ==
    /\ dsSelf \cup dsPrev # {}
    /\ dsSelf' = minimize(dsSelf)
    /\ dsRet' = minimize_ret(dsSelf)
    /\ dsArg' = {}
    /\ dsOp' = "minimize"
    /\ dsPrev' = dsSelf
    /\ UNCHANGED <<piVars, sgVars, svVars, exVars>>

\* DownSet::restrict_to(other)
RestrictTo ==
    /\ dsSelf \cup dsPrev # {}
    /\ \E other \in {D \in DownSetsOfDim(DsDim) : IsAntichain(D)} :
          /\ dsSelf' = restrict_to(dsSelf, other)
          /\ dsRet' = restrict_to_ret(dsSelf, other)
          /\ dsArg' = other
    /\ dsOp' = "restrict_to"
    /\ dsPrev' = dsSelf
    /\ UNCHANGED <<piVars, sgVars, svVars, exVars>>

\* DownSet::round_down(maximal_finite_value, dim); it returns nothing
RoundDown ==
    /\ dsSelf \cup dsPrev # {}
    /\ \E maximal_finite_value \in 0..MaxK :
          /\ dsSelf' = round_down(dsSelf, maximal_finite_value, DsDim)
          /\ dsArg' = {maximal_finite_value}
    /\ dsRet' = FALSE
    /\ dsOp' = "round_down"
    /\ dsPrev' = dsSelf
    /\ UNCHANGED <<piVars, sgVars, svVars, exVars>>

\* the mutations of a DownSet the program makes.  restrict_to_preimage_of
\* (downset.rs 159-193) is not among them: it is #[allow(dead_code)], its one
\* call, in Strategy::restrict_to (strategy.rs 45), is commented out, and it
\* is pub(crate), so neither the program nor a user of the crate reaches it
DsNext == Insert \/ Minimize \/ RestrictTo \/ RoundDown

SpecDownSet == DsInit /\ [][DsNext]_vars

\* C6: after any sequence of insert, minimize, restrict_to and round_down on
\* a DownSet that was an antichain, no two distinct stored ideals are comparable
C6_StoredIdealsAntichain == IsAntichain(dsSelf)


\* ================================================ FlowSemigroup::compute
\* the seeds drawn as inputs: at most MaxSeeds square flows of one dimension
\* with entries in {0..K} or omega
SeedSets(dim, k) == SubsetsUpTo(Flows(dim, Min2(k, MaxSeedCoef)), MaxSeeds) \ {{}}

SgInit ==
    /\ \E dim \in 1..MaxDim : \E k \in 1..MaxK : \E seeds \in SeedSets(dim, k) :
         \E order \in iteration_orders(seeds) :
            /\ sgSeeds = seeds
            /\ sgK = k
            /\ sgFlows = seeds
            /\ to_process_mult = order
            /\ to_process_iter = SelectSeq(order, is_idempotent)
    /\ sgChanged = FALSE
    /\ sgProducts = {}
    /\ sgPc = "mult"
    /\ PiIdle
    /\ DsIdle
    /\ SvIdle
    /\ ExIdle

\* while !to_process_mult.is_empty(): pop the front and compute its products
PopMult ==
    /\ sgPc = "mult"
    /\ sgProducts = {}
    /\ to_process_mult # <<>>
    /\ sgProducts' = admissible(products_of(Head(to_process_mult), sgFlows, sgK), sgFlows)
    /\ to_process_mult' = Tail(to_process_mult)
    /\ UNCHANGED <<sgSeeds, sgK, sgFlows, to_process_iter, sgChanged, sgPc, piVars, dsVars, svVars, exVars>>

\* for product in products: the loop advances, in the order the HashSet
\* yields, to the next product that is not covered, and admits it
VisitProduct ==
    /\ sgPc = "mult"
    /\ Cardinality(sgFlows) < MaxFlows
    /\ \E prod \in sgProducts :
        /\ sgFlows' = sgFlows \cup {prod}
        /\ sgProducts' = admissible(sgProducts, sgFlows \cup {prod})
        /\ to_process_iter' = IF is_idempotent(prod)
                              THEN Append(to_process_iter, prod)
                              ELSE to_process_iter
        /\ to_process_mult' = Append(to_process_mult, prod)
        /\ sgChanged' = TRUE
    /\ UNCHANGED <<sgSeeds, sgK, sgPc, piVars, dsVars, svVars, exVars>>

\* the product queue is empty: go on with the iteration queue
EndMult ==
    /\ sgPc = "mult"
    /\ sgProducts = {}
    /\ to_process_mult = <<>>
    /\ sgPc' = "iter"
    /\ UNCHANGED <<sgSeeds, sgK, sgFlows, to_process_mult, to_process_iter, sgChanged,
                   sgProducts, piVars, dsVars, svVars, exVars>>

\* while !to_process_iter.is_empty(): pop the front and admit its iteration
PopIter ==
    /\ sgPc = "iter"
    /\ to_process_iter # <<>>
    /\ is_covered(iteration(Head(to_process_iter)), sgFlows) \/ Cardinality(sgFlows) < MaxFlows
    /\ to_process_iter' = Tail(to_process_iter)
    /\ IF ~is_covered(iteration(Head(to_process_iter)), sgFlows)
       THEN /\ sgFlows' = sgFlows \cup {iteration(Head(to_process_iter))}
            /\ to_process_mult' = Append(to_process_mult, iteration(Head(to_process_iter)))
            /\ sgChanged' = TRUE
       ELSE UNCHANGED <<sgFlows, to_process_mult, sgChanged>>
    /\ UNCHANGED <<sgSeeds, sgK, sgProducts, sgPc, piVars, dsVars, svVars, exVars>>

\* end of one pass of `loop`: break and minimize, or start the next pass
EndPass ==
    /\ sgPc = "iter"
    /\ to_process_iter = <<>>
    /\ IF ~sgChanged
       THEN /\ sgFlows' = semigroup_minimize(sgFlows)
            /\ sgPc' = "done"
            /\ UNCHANGED sgChanged
       ELSE /\ sgChanged' = FALSE
            /\ sgPc' = "mult"
            /\ UNCHANGED sgFlows
    /\ UNCHANGED <<sgSeeds, sgK, to_process_mult, to_process_iter, sgProducts,
                   piVars, dsVars, svVars, exVars>>

SgNext == PopMult \/ VisitProduct \/ EndMult \/ PopIter \/ EndPass

SpecSemigroup == SgInit /\ [][SgNext]_vars

\* the guard of PopMult
PopMultEnabled == sgPc = "mult" /\ sgProducts = {} /\ to_process_mult # <<>>

\* the seeds of the runs that are followed to their end whatever the order of
\* the HashSets: any seed for the bound 1, and for a larger bound the seeds
\* with at most MaxSeedEntries entries that are not 0
SeedSetsFollowed(dim, k) ==
    {seeds \in SeedSets(dim, k) :
        \/ k = 1
        \/ \A f \in seeds :
              Cardinality({i \in DOMAIN f.entries : f.entries[i] # C0}) <= MaxSeedEntries}

SgInitFollowed ==
    /\ SgInit
    /\ sgSeeds \in SeedSetsFollowed((CHOOSE f \in sgSeeds : TRUE).nb_rows, sgK)

\* the loop is a sequential program: a step that can be taken is taken.  The
\* weak fairness of PopMult is written out, its enabling condition being its
\* guard
SpecSemigroupFair ==
    /\ SgInitFollowed /\ [][SgNext]_vars
    /\ WF_vars(VisitProduct \/ EndMult \/ PopIter \/ EndPass)
    /\ ([]<>(~PopMultEnabled) \/ []<><<PopMult>>_vars)

\* the products of two flows the closure uses
closure_products(f, g, maximal_finite_coordinate) ==
    IF maximal_finite_coordinate <= 1 THEN {product(f, g)}
    ELSE get_products(f, g, maximal_finite_coordinate)

\* C3: when FlowSemigroup::compute has returned T, every product of two
\* members of T that the closure uses, and the iteration of every idempotent
\* member of T, is componentwise below some member of T
C3_SemigroupClosed ==
    sgPc = "done" =>
        /\ \A f \in sgFlows : \A g \in sgFlows :
             \A prod \in closure_products(f, g, sgK) : is_covered(prod, sgFlows)
        /\ \A f \in sgFlows : is_idempotent(f) => is_covered(iteration(f), sgFlows)

C3_Witness ==
    /\ sgPc = "done"
    /\ sgK >= 2
    /\ Cardinality(sgFlows) >= 2
    /\ \E f \in sgFlows : f \notin sgSeeds /\ is_idempotent(f)

\* C18: the flows returned by FlowSemigroup::compute are an antichain, no
\* member strictly below another, and every seed is below some member
C18_AntichainCoversSeeds ==
    sgPc = "done" =>
        /\ \A f \in sgFlows : \A g \in sgFlows : ~FlowLt(f, g)
        /\ \A seed \in sgSeeds : is_covered(seed, sgFlows)

C18_Witness ==
    /\ sgPc = "done"
    /\ Cardinality(sgFlows) >= 2
    /\ \E seed \in sgSeeds : seed \notin sgFlows

DsDimSeen ==
    LET seen == dsSelf \cup dsPrev \cup (IF dsOp = "restrict_to" THEN dsArg ELSE {})
    IN IF seen = {} THEN MaxDim ELSE IdealLen(CHOOSE x \in seen : TRUE)

\* C11: restrict_to(E) leaves in D exactly the configurations that D and E
\* both contained; it returns true iff some stored ideal of D was not
\* contained in E; when it returns false the stored set is unchanged; and
\* restricting a non-empty D to the empty DownSet empties D and returns true
C11_RestrictToIsIntersection ==
    dsOp = "restrict_to" =>
        /\ \A x \in Ideals(DsDimSeen, MaxK) :
              contains(dsSelf, x) <=> (contains(dsPrev, x) /\ contains(dsArg, x))
        /\ dsRet <=> \E ideal \in dsPrev : ~contains(dsArg, ideal)
        /\ ~dsRet => dsSelf = dsPrev
        /\ (dsPrev # {} /\ dsArg = {}) => (dsSelf = {} /\ dsRet)

C11_Witness ==
    /\ dsOp = "restrict_to"
    /\ dsRet
    /\ Cardinality(dsPrev) = 2
    /\ Cardinality(dsArg) = 2
    /\ dsSelf # {}
    /\ \A x \in dsSelf : x \notin dsPrev /\ x \notin dsArg

\* C12: restrict_to is commutative and associative up to the equality of
\* DownSets: A restricted to B equals B restricted to A, and (A restricted to
\* B) restricted to C equals A restricted to (B restricted to C)
C12_RestrictToCommutesAssociates ==
    dsOp = "restrict_to" =>
        /\ DownSetEq(dsSelf, restrict_to(dsArg, dsPrev))
        /\ \A C \in {D \in DownSetsOfDim(DsDimSeen) : IsAntichain(D)} :
              DownSetEq(restrict_to(dsSelf, C), restrict_to(dsPrev, restrict_to(dsArg, C)))

C12_Witness ==
    /\ dsOp = "restrict_to"
    /\ dsRet
    /\ restrict_to_ret(dsArg, dsPrev)
    /\ dsSelf # {}
    /\ \E C \in {D \in DownSetsOfDim(DsDimSeen) : IsAntichain(D)} :
          restrict_to_ret(dsSelf, C) /\ restrict_to(dsSelf, C) # {}

\* C13: insert(I) on a DownSet that contains I, I being below some stored
\* ideal, changes nothing and returns false
C13_InsertContainedIsNoOp ==
    (dsOp = "insert" /\ \E ideal \in dsArg : contains(dsPrev, ideal)) =>
        (dsSelf = dsPrev /\ ~dsRet)

\* C14: minimize removes exactly the stored ideals strictly below another
\* stored ideal: afterwards the stored ideals are an antichain, contains is
\* unchanged, and a second minimize removes nothing and returns false
C14_MinimizeExact ==
    dsOp = "minimize" =>
        /\ dsSelf = {x \in dsPrev : ~\E y \in dsPrev : IdealLeq(x, y) /\ x # y}
        /\ IsAntichain(dsSelf)
        /\ \A x \in Ideals(DsDimSeen, MaxK) : contains(dsSelf, x) <=> contains(dsPrev, x)
        /\ minimize(dsSelf) = dsSelf
        /\ ~minimize_ret(dsSelf)

C14_Witness ==
    /\ dsOp = "minimize"
    /\ dsRet
    /\ ~IsAntichain(dsPrev)
    /\ dsSelf # dsPrev

\* -------------------------------------------------- Flow::iteration machine
\* self.iteration() up to the first turn of the loop of self.idempotent()
FlInit ==
    /\ flSelf \in UNION {Flows(dim, MaxK) : dim \in 1..MaxDim} \cup Flows(MaxFlowDim, 0)
    /\ flResult = flSelf
    /\ flPc = "idempotent"
    /\ PiIdle
    /\ DsIdle
    /\ SgIdle
    /\ SvIdle
    /\ FnIdle
    /\ MzIdle
    /\ LdIdle
    /\ ImIdle

\* one turn of the loop of Flow::idempotent
Square ==
    /\ flPc = "idempotent"
    /\ IF flResult = product(flResult, flResult)
       THEN flPc' = "marks" /\ UNCHANGED flResult
       ELSE flResult' = product(flResult, flResult) /\ UNCHANGED flPc
    /\ UNCHANGED <<flSelf, piVars, dsVars, sgVars, svVars, fnVars, mzVars, ldVars, imVars>>

\* the nested loops of Flow::iteration, and its return
Marks ==
    /\ flPc = "marks"
    /\ flResult' = iteration_marks(flSelf, flResult)
    /\ flPc' = "done"
    /\ UNCHANGED <<flSelf, piVars, dsVars, sgVars, svVars, fnVars, mzVars, ldVars, imVars>>

FlNext == Square \/ Marks

SpecIteration == FlInit /\ [][FlNext]_vars

\* Flow::iteration is a sequential program: a step that can be taken is taken
SpecIterationFair == FlInit /\ [][FlNext]_vars /\ WF_vars(FlNext)

\* what C15 says iteration returns, for the idempotent closure E of F
iteration_of_closure(E) ==
    LET dim == E.nb_rows
    IN Flow(dim, dim,
            [k \in 0..(dim * dim - 1) |->
                IF \E s0 \in 0..(dim - 1), t0 \in 0..(dim - 1) :
                     /\ FlowGet(E, s0, t0) # OMEGA
                     /\ FlowGet(E, s0, t0) >= 1
                     /\ FlowGet(E, k \div dim, s0) = OMEGA
                     /\ FlowGet(E, t0, k % dim) = OMEGA
                THEN OMEGA ELSE E.entries[k]])

\* C15: iteration(F) is omega at (i, j) whenever the idempotent closure E of F
\* has a finite entry >= 1 at some (s0, t0) with E[i][s0] and E[t0][j] omega,
\* and is E[i][j] otherwise
C15_IterationOfClosure ==
    flPc = "done" => flResult = iteration_of_closure(idempotent(flSelf))

\* C16: repeated squaring reaches an idempotent flow: the loop of
\* Flow::idempotent ends, with a result E such that E * E = E
C16_IdempotentTerminates ==
    /\ [](flPc = "marks" => product(flResult, flResult) = flResult)
    /\ <>(flPc \in {"marks", "done"})

\* ------------------------------------------ Flow::from_domain_and_edges
\* a call Flow::from_domain_and_edges(domain, edges)
FnInitFromDomain ==
    /\ fnOp = "from_domain_and_edges"
    /\ \E dim \in 1..MaxDim :
          fnArgs \in {<<domain, edges>> : domain \in Ideals(dim, MaxK), edges \in Graphs(dim)}
    /\ fnRet = {}
    /\ fnPc = "call"
    /\ PiIdle
    /\ DsIdle
    /\ SgIdle
    /\ SvIdle
    /\ FlIdle
    /\ MzIdle
    /\ LdIdle
    /\ ImIdle

\* Flow::from_domain_and_edges returns or panics
FromDomainAndEdges ==
    /\ fnPc = "call"
    /\ fnOp = "from_domain_and_edges"
    /\ fnRet' = from_domain_and_edges(fnArgs[1], fnArgs[2])
    /\ fnPc' = IF fnRet' = PanicFlows THEN "panicked" ELSE "done"
    /\ UNCHANGED <<fnOp, fnArgs, piVars, dsVars, sgVars, svVars, flVars, mzVars, ldVars, imVars>>

SpecFromDomain == FnInitFromDomain /\ [][FromDomainAndEdges]_vars

\* --------------------------------------------------- POSSIBLE_COEFS_CACHE
Threads == 1..MaxThreads

\* the arguments of the calls of safe_pre_image on one graph with one bound
MzCalls(edges, k) ==
    {[self |-> D, edges |-> edges, maximal_finite_coordinate |-> k] :
        D \in {{}} \cup {{ideal} : ideal \in Ideals(edges.dim, 1)}}

\* the cache is empty, its Mutex free and sound, and every thread is about to
\* call safe_pre_image; the bound is small, or it is coef::MAX, with which
\* the key of a downset that holds omega makes compute_possible_coefs panic
MzInit ==
    /\ memoizer = [cache |-> <<>>]
    /\ mzMutex = 0
    /\ mzPoisoned = FALSE
    /\ mzComputed = <<>>
    /\ \E dim \in 1..MaxDim : \E edges \in Graphs(dim) : \E k \in (1..MaxK) \cup {CoefMax} :
          mzThread \in [Threads -> {MzThread(call) : call \in MzCalls(edges, k)}]
    /\ PiIdle
    /\ DsIdle
    /\ SgIdle
    /\ SvIdle
    /\ FlIdle
    /\ FnIdle
    /\ LdIdle
    /\ ImIdle

MzNext == SafePreImageStep

SpecMemoizer == MzInit /\ [][MzNext]_vars

\* what a thread that is through safe_pre_image got from the cache and
\* returned is what the call gives without a cache
MzThreadTransparent(t) ==
    /\ mzThread[t].pc \in {"unlock", "filter", "done"} /\ mzThread[t].call.self # {}
          => mzThread[t].candidates = compute_possible_coefs(mzThread[t].possible_coefs)
    /\ mzThread[t].pc = "done"
          => mzThread[t].result =
                safe_pre_image(mzThread[t].call.self, mzThread[t].call.edges,
                               mzThread[t].call.maximal_finite_coordinate)

\* the call of thread t panics when nothing is cached and no other thread runs
MzCallPanics(t) ==
    safe_pre_image(mzThread[t].call.self, mzThread[t].call.edges,
                   mzThread[t].call.maximal_finite_coordinate) = PanicIdeals

C20_PoisonedLock ==
    \E t \in DOMAIN mzThread :
        /\ mzThread[t].pc = "panicked"
        /\ ~MzCallPanics(t)
        /\ mzThread[t].call.self # {}

\* ------------------------------------------ get_partitions, get_transports
\* a call get_partitions(x, len) or get_transports(c, len)
FnInitPartitions ==
    /\ fnOp \in {"get_partitions", "get_transports"}
    /\ fnArgs \in (0..MaxPartitionValue) \X (1..MaxPartitionLen)
    /\ fnRet = <<>>
    /\ fnPc = "call"
    /\ PiIdle
    /\ DsIdle
    /\ SgIdle
    /\ SvIdle
    /\ FlIdle
    /\ MzIdle
    /\ LdIdle
    /\ ImIdle

\* partitions::get_partitions returns
GetPartitions ==
    /\ fnPc = "call"
    /\ fnOp = "get_partitions"
    /\ fnRet' = get_partitions(fnArgs[1], fnArgs[2])
    /\ fnPc' = "done"
    /\ UNCHANGED <<fnOp, fnArgs, piVars, dsVars, sgVars, svVars, flVars, mzVars, ldVars, imVars>>

\* partitions::get_transports returns or panics
GetTransports ==
    /\ fnPc = "call"
    /\ fnOp = "get_transports"
    /\ fnRet' = partitions_get_transports(fnArgs[1], fnArgs[2])
    /\ fnPc' = IF fnRet' = PanicVecs THEN "panicked" ELSE "done"
    /\ UNCHANGED <<fnOp, fnArgs, piVars, dsVars, sgVars, svVars, flVars, mzVars, ldVars, imVars>>

SpecPartitions == FnInitPartitions /\ [][GetPartitions \/ GetTransports]_vars

\* C23: get_partitions(v, k) and get_transports(v, k) return, without
\* duplicates, exactly the tuples of k non-negative integers whose sum is v
C23_PartitionsAndTransportsExact ==
    (fnOp \in {"get_partitions", "get_transports"} /\ fnPc = "done") =>
        /\ \A i \in 1..Len(fnRet) : \A j \in 1..Len(fnRet) : fnRet[i] = fnRet[j] => i = j
        /\ SeqRange(fnRet) = {t \in [1..fnArgs[2] -> 0..fnArgs[1]] : SeqSum(t) = fnArgs[1]}

\* get_transports returned more than one tuple of more than two coordinates
C23_Witness ==
    /\ fnOp = "get_transports"
    /\ fnPc = "done"
    /\ fnArgs[2] > 2
    /\ Len(fnRet) > fnArgs[2]

\* ------------------------------------------------------ DownSet::get_image
\* the states that have a transition to state 0 in the Nfas below
MaxPredecessors == 3

\* the winning downset of the first update_strategy of solve in Strategy mode
\* on the Nfa with dim states, state 0 accepting and one transition to state 0
\* from each state of P: the one action flow sends P to 0, its square is the
\* empty flow, so the path problem solution is omega on P
first_winning_downset(dim, P) ==
    minimize(round_down(insert({get_omega_ideal(dim, SetToSeq(P))},
                               get_omega_ideal(dim, <<0>>)),
                        dim % (CoefMax + 1), dim))

\* a call of get_image made by is_safe_with_roundup on a candidate of
\* safe_pre_image, on that winning downset
FnInitImage ==
    /\ fnOp = "get_image"
    /\ \E P \in SUBSET (1..MaxPredecessors) :
          LET dim == MaxCoefStates
              edges == Graph(dim, {<<i, 0>> : i \in P})
              K == dim % (CoefMax + 1)
              possible_coefs ==
                  safe_pre_image_possible_coefs(first_winning_downset(dim, P), edges, K)
          IN \E v \in [P -> {C0, C1, K, OMEGA}] :
                LET candidate == [i \in 0..(dim - 1) |-> IF i \in P THEN v[i] ELSE C0]
                IN /\ \A i \in 0..(dim - 1) :
                         candidate[i] \in compute_possible_coefs_at(possible_coefs[i])
                   /\ fnArgs = <<dim, candidate, edges, K>>
    /\ fnRet = {}
    /\ fnPc = "call"
    /\ imIndex = 0
    /\ imResult = IdealNew(MaxCoefStates, C0)
    /\ imWrapped = FALSE
    /\ PiIdle
    /\ DsIdle
    /\ SgIdle
    /\ SvIdle
    /\ FlIdle
    /\ MzIdle
    /\ LdIdle

\* one `result.add_other(s)` of the closure of get_image, for the choice s of
\* the state imIndex, in a build where the u8 additions wrap
AddOther ==
    /\ fnPc = "call"
    /\ fnOp = "get_image"
    /\ imIndex < IdealLen(fnArgs[2])
    /\ \E s \in get_choices(fnArgs[1], fnArgs[2][imIndex],
                            get_successors(fnArgs[3], imIndex)) :
          /\ imResult' = IdealAddIn(FALSE, imResult, s)
          /\ imWrapped' = (imWrapped \/ \E j \in DOMAIN s :
                              imResult[j] # OMEGA /\ s[j] # OMEGA
                                  /\ imResult[j] + s[j] > CoefMax)
    /\ imIndex' = imIndex + 1
    /\ UNCHANGED <<fnVars, piVars, dsVars, sgVars, svVars, flVars, mzVars, ldVars>>

\* the same add_other in a build with overflow checks, when a sum of two
\* finite coefficients is above coef::MAX: the thread panics
AddOtherPanics ==
    /\ fnPc = "call"
    /\ fnOp = "get_image"
    /\ imIndex < IdealLen(fnArgs[2])
    /\ \E s \in get_choices(fnArgs[1], fnArgs[2][imIndex],
                            get_successors(fnArgs[3], imIndex)) :
          IdealAddIn(TRUE, imResult, s) = PanicIdeal
    /\ fnPc' = "panicked"
    /\ UNCHANGED <<fnOp, fnArgs, fnRet, imVars, piVars, dsVars, sgVars, svVars, flVars,
                   mzVars, ldVars>>

\* the closure of get_image returns result.round_up(max_finite_value)
RoundUp ==
    /\ fnPc = "call"
    /\ fnOp = "get_image"
    /\ imIndex = IdealLen(fnArgs[2])
    /\ fnRet' = {IdealRoundUp(imResult, fnArgs[4])}
    /\ fnPc' = "done"
    /\ UNCHANGED <<fnOp, fnArgs, imVars, piVars, dsVars, sgVars, svVars, flVars, mzVars,
                   ldVars>>

SpecImage == FnInitImage /\ [][AddOther \/ AddOtherPanics \/ RoundUp]_vars

\* C22: during solve with n <= 255 states no addition of finite
\* coefficients goes above the maximum of the 8-bit coefficient type
C22_NoCoefficientOverflow == fnOp = "get_image" => (~imWrapped /\ fnPc # "panicked")

\* ------------------------------------------------------- Nfa::sort, solve
StateOrderings == {"Input", "Alphabetical", "Topological"}

\* the Vecs of n distinct labels
Labellings(n) == {v \in [1..n -> 1..n] : \A i \in 1..n : \A j \in 1..n : v[i] = v[j] => i = j}

\* the Nfas with labelled states: at most MaxStates states over the alphabet
\* with at most MaxLoadTransitions transitions, or MaxStatesThree states over
\* one letter with state 0 initial, the last state accepting and at most
\* MaxTransitionsThree transitions
LabelledNfas ==
    UNION {{NfaOfStates(states, initial, accepting, transitions) :
                states \in Labellings(n),
                initial \in SUBSET (0..(n - 1)),
                accepting \in SUBSET (0..(n - 1)),
                transitions \in SubsetsUpTo((0..(n - 1)) \X {"a", "b"} \X (0..(n - 1)),
                                            MaxLoadTransitions)} : n \in 1..MaxStates}
    \cup {NfaOfStates(states, {0}, {MaxStatesThree - 1}, transitions) :
                states \in Labellings(MaxStatesThree),
                transitions \in SubsetsUpTo((0..(MaxStatesThree - 1)) \X {"a"}
                                                \X (0..(MaxStatesThree - 1)),
                                            MaxTransitionsThree)}

\* Nfa::load_from_file after the parse, before nfa.sort(state_ordering)
LdInit ==
    /\ ldParsed \in LabelledNfas
    /\ ldNfa = ldParsed
    /\ state_ordering \in StateOrderings
    /\ ldOutput \in {"Strategy", "YesNo"}
    /\ ldOrder = <<>>
    /\ ldSolution = [is_controllable |-> FALSE, winning_strategy |-> <<>>]
    /\ ldPc = "load"
    /\ PiIdle
    /\ DsIdle
    /\ SgIdle
    /\ SvIdle
    /\ FlIdle
    /\ FnIdle
    /\ MzIdle
    /\ ImIdle

\* Nfa::sort on an Nfa of MaxStatesThree states, of which only the order
\* of the states is looked at
LdInitSort ==
    /\ ldParsed \in LabelledNfas
    /\ ldParsed.nb_states = MaxStatesThree
    /\ ldNfa = ldParsed
    /\ state_ordering \in StateOrderings
    /\ ldOutput = "YesNo"
    /\ ldOrder = <<>>
    /\ ldSolution = [is_controllable |-> FALSE, winning_strategy |-> <<>>]
    /\ ldPc = "load"
    /\ PiIdle
    /\ DsIdle
    /\ SgIdle
    /\ SvIdle
    /\ FlIdle
    /\ FnIdle
    /\ MzIdle
    /\ ImIdle

\* Nfa::sort: nothing for Input, else the state indices are sorted and
\* apply_reordering is called with them
Sort ==
    /\ ldPc = "load"
    /\ IF state_ordering = "Input"
       THEN /\ ldOrder' = [i \in 1..ldNfa.nb_states |-> i - 1]
            /\ ldNfa' = ldNfa
       ELSE \E new_order \in sorted_indices(ldNfa, state_ordering) :
               /\ ldOrder' = new_order
               /\ ldNfa' = apply_reordering(ldNfa, new_order)
    /\ ldPc' = "sorted"
    /\ UNCHANGED <<ldParsed, state_ordering, ldOutput, ldSolution, piVars, dsVars, sgVars,
                   svVars, flVars, fnVars, mzVars, imVars>>

\* Nfa::sort when slice::sort_by panics, which it may do when the comparison
\* is not a total order
SortPanics ==
    /\ ldPc = "load"
    /\ state_ordering # "Input"
    /\ ~is_total_order(0..(ldNfa.nb_states - 1), sort_cmp(ldNfa, state_ordering))
    /\ ldPc' = "panicked"
    /\ UNCHANGED <<ldParsed, ldNfa, state_ordering, ldOutput, ldOrder, ldSolution, piVars,
                   dsVars, sgVars, svVars, flVars, fnVars, mzVars, imVars>>

\* solver::solve is called on the sorted Nfa and runs up to its `match
\* output`: final_states is collected from the HashSet of the accepting
\* states in one of its orders, and the loops begin with the maximal strategy
Solve ==
    /\ ldPc = "sorted"
    /\ svNfa' = ldNfa
    /\ svOutput' = ldOutput
    /\ svStrategy' = get_maximal_strategy(ldNfa.nb_states, get_alphabet(ldNfa))
    /\ svK' = IF ldOutput = "Strategy" THEN ldNfa.nb_states % (CoefMax + 1) ELSE 1
    /\ final_states' \in iteration_orders(ldNfa.accepting)
    /\ svPc' = "loop"
    /\ ldPc' = "solve"
    /\ UNCHANGED <<ldParsed, ldNfa, state_ordering, ldOutput, ldOrder, ldSolution, svStep,
                   is_controllable, svSemigroup, svSafe, svLetters, svLetter, svResult,
                   piVars, dsVars, sgVars, flVars, fnVars, mzVars, imVars>>

\* solve has returned its Solution
Solved ==
    /\ ldPc = "solve"
    /\ svPc = "done"
    /\ ldSolution' = [is_controllable |-> is_controllable, winning_strategy |-> svStrategy]
    /\ ldPc' = "solved"
    /\ UNCHANGED <<ldParsed, ldNfa, state_ordering, ldOutput, ldOrder, piVars, dsVars,
                   sgVars, svVars, flVars, fnVars, mzVars, imVars>>

SpecSort == LdInitSort /\ [][Sort \/ SortPanics]_vars

\* an ideal with its coordinates permuted: coordinate p is the old
\* coordinate new_order[p]
PermutedIdeal(ideal, new_order) == [p \in DOMAIN ideal |-> ideal[new_order[p + 1]]]

\* C21: sort applies one permutation to the labels, the transition
\* endpoints, the initial and the accepting states, and solve on the sorted
\* Nfa returns the verdict of the Nfa as parsed and, for every letter, its
\* DownSet with the coordinates permuted
C21_SortPermutesCoordinates ==
    /\ ldPc \in {"sorted", "solved"} =>
          /\ ldOrder \in Reorderings(ldParsed.nb_states)
          /\ ldNfa.states = [p \in 1..ldParsed.nb_states |-> ldParsed.states[ldOrder[p] + 1]]
          /\ ldNfa.initial = {p \in 0..(ldParsed.nb_states - 1) :
                                 ldOrder[p + 1] \in ldParsed.initial}
          /\ ldNfa.accepting = {p \in 0..(ldParsed.nb_states - 1) :
                                   ldOrder[p + 1] \in ldParsed.accepting}
          /\ ldNfa.transitions =
                {t \in (0..(ldParsed.nb_states - 1)) \X {"a", "b"} \X (0..(ldParsed.nb_states - 1)) :
                    <<ldOrder[t[1] + 1], t[2], ldOrder[t[3] + 1]>> \in ldParsed.transitions}
    /\ ldPc = "solved" =>
          \A original \in solve_winning_strategy(memoizer, ldParsed, ldOutput) :
             /\ ldSolution.is_controllable =
                   is_defined_on(original.strategy, solve_source(ldParsed))
             /\ DOMAIN ldSolution.winning_strategy = DOMAIN original.strategy
             /\ \A letter \in DOMAIN original.strategy :
                   DownSetEq(ldSolution.winning_strategy[letter],
                             {PermutedIdeal(ideal, ldOrder) :
                                 ideal \in original.strategy[letter]})

\* a solved Nfa of MaxStatesThree states that the topological sort has
\* moved, with a strategy that is neither empty nor maximal for some letter
C21_Witness ==
    /\ ldPc = "solved"
    /\ state_ordering = "Topological"
    /\ ldNfa.nb_states = MaxStatesThree
    /\ ldNfa # ldParsed
    /\ \E letter \in DOMAIN ldSolution.winning_strategy :
          /\ ldSolution.winning_strategy[letter] # {}
          /\ \E ideal \in ldSolution.winning_strategy[letter] :
                \E p \in DOMAIN ideal : \E q \in DOMAIN ideal : ideal[p] # ideal[q]

\* C26: after sort(Topological) a state is placed before every state it
\* reaches without being reached back, states unrelated by reachability are
\* in the alphabetical order of their labels, and the comparison used is a
\* total preorder
C26_TopologicalOrder ==
    (state_ordering = "Topological" /\ ldPc \in {"sorted", "panicked"}) =>
        /\ is_total_order(0..(ldParsed.nb_states - 1), topological_cmp(ldParsed))
        /\ ldPc = "sorted" =>
              \A p \in 1..Len(ldOrder) : \A q \in 1..Len(ldOrder) :
                  LET a == ldOrder[p]
                      b == ldOrder[q]
                      succ == successor_relation(ldParsed)
                  IN /\ (b \in succ[a] /\ a \notin succ[b]) => p < q
                     /\ (b \notin succ[a] /\ a \notin succ[b]
                            /\ ldParsed.states[a + 1] < ldParsed.states[b + 1]) => p < q

\* ------------------------------------------- FlowSemigroup::get_products
\* a call FlowSemigroup::get_products(left, right, maximal_finite_coordinate)
FnInitProducts ==
    /\ fnOp = "get_products"
    /\ \E dim \in 1..MaxDim : \E k \in 1..MaxK :
          fnArgs \in {<<left, right, k>> : left \in Flows(dim, k), right \in Flows(dim, k)}
    /\ fnRet = {}
    /\ fnPc = "call"
    /\ PiIdle
    /\ DsIdle
    /\ SgIdle
    /\ SvIdle
    /\ FlIdle
    /\ MzIdle
    /\ LdIdle
    /\ ImIdle

\* FlowSemigroup::get_products returns or panics
GetProducts ==
    /\ fnPc = "call"
    /\ fnOp = "get_products"
    /\ fnRet' = get_products(fnArgs[1], fnArgs[2], fnArgs[3])
    /\ fnPc' = IF fnRet' = PanicFlows THEN "panicked" ELSE "done"
    /\ UNCHANGED <<fnOp, fnArgs, piVars, dsVars, sgVars, svVars, flVars, mzVars, ldVars, imVars>>

SpecProducts == FnInitProducts /\ [][GetProducts]_vars

RECURSIVE transport_overflows(_, _, _, _, _)
\* some entry accumulated for transport t, from position p of all_indices on,
\* is finite and above the bound
transport_overflows(t, indices, p, maximal_finite_coordinate, current_flow) ==
    IF p > Len(indices) THEN FALSE
    ELSE LET reali == indices[p][2]
             realj == indices[p][4]
             newcf == CoefAdd(FlowGet(current_flow, reali, realj),
                              FlowGet(t, indices[p][1], indices[p][3]))
         IN IF newcf # OMEGA /\ newcf > maximal_finite_coordinate THEN TRUE
            ELSE transport_overflows(t, indices, p + 1, maximal_finite_coordinate,
                    IF newcf = OMEGA THEN current_flow
                    ELSE FlowSet(current_flow, reali, realj, newcf))

RECURSIVE products_omitting_rec(_, _, _, _, _, _)
\* the products in which no accumulated finite entry exceeds the bound
products_omitting_rec(dim, left, right, maximal_finite_coordinate, k, current_flow) ==
    IF edges_to(left, k) = <<>> \/ edges_from(right, k) = <<>>
    THEN IF k + 1 < dim
         THEN products_omitting_rec(dim, left, right, maximal_finite_coordinate, k + 1,
                                    current_flow)
         ELSE {current_flow}
    ELSE UNION {LET after == apply_transport(t, all_indices(left, right, k), 1, k,
                                             maximal_finite_coordinate, current_flow,
                                             left, right)
                IN IF k + 1 >= dim THEN {after[1]}
                   ELSE products_omitting_rec(dim, after[2], after[3],
                                              maximal_finite_coordinate, k + 1, after[1]) :
                t \in {u \in semigroup_get_transports(left_coefs(left, k),
                                                      right_coefs(right, k),
                                                      maximal_finite_coordinate) :
                         ~transport_overflows(u, all_indices(left, right, k), 1,
                                              maximal_finite_coordinate, current_flow)}}

products_omitting(left, right, maximal_finite_coordinate) ==
    products_omitting_rec(left.nb_rows, left, right, maximal_finite_coordinate, 0,
                          get_omega_entries(left, right))

\* C19: get_products omits every candidate in which an accumulated finite
\* entry would exceed the bound, and every returned flow has all its finite
\* entries at most the bound
C19_OverflowingProductsOmitted ==
    (fnPc = "done" /\ fnOp = "get_products") =>
        /\ fnRet = products_omitting(fnArgs[1], fnArgs[2], fnArgs[3])
        /\ \A flow \in fnRet : \A e \in DOMAIN flow.entries :
              flow.entries[e] = OMEGA \/ flow.entries[e] <= fnArgs[3]

\* the second half of C19 alone
C19_EntriesWithinBound ==
    (fnPc = "done" /\ fnOp = "get_products") =>
        \A flow \in fnRet : \A e \in DOMAIN flow.entries :
            flow.entries[e] = OMEGA \/ flow.entries[e] <= fnArgs[3]

\* the sum of the finite entries of row i of a flow
RowSum(f, i) ==
    EdgeSum([e \in {<<i, j>> : j \in 0..(f.nb_cols - 1)} |-> FlowGet(f, e[1], e[2])],
            {<<i, j>> : j \in 0..(f.nb_cols - 1)})

\* C17: from_domain_and_edges(I, G) returns exactly the flows whose row i is
\* zero when I[i] = 0, omega on the successors of i and zero elsewhere when
\* I[i] = omega, and finite, zero off the successors and of sum I[i] otherwise
C17_FromDomainAndEdgesExact ==
    (fnPc = "done" /\ fnOp = "from_domain_and_edges") =>
        LET domain == fnArgs[1]
            edges == fnArgs[2]
            dim == IdealLen(domain)
        IN fnRet =
             {f \in Flows(dim, MaxK) :
                \A i \in 0..(dim - 1) :
                    IF domain[i] = C0
                    THEN \A j \in 0..(dim - 1) : FlowGet(f, i, j) = C0
                    ELSE IF domain[i] = OMEGA
                    THEN \A j \in 0..(dim - 1) :
                            FlowGet(f, i, j) = (IF j \in get_successors(edges, i)
                                                THEN OMEGA ELSE C0)
                    ELSE /\ \A j \in 0..(dim - 1) :
                               /\ FlowGet(f, i, j) # OMEGA
                               /\ j \notin get_successors(edges, i) => FlowGet(f, i, j) = C0
                         /\ RowSum(f, i) = domain[i]}

C17_Witness ==
    /\ fnPc = "done"
    /\ fnOp = "from_domain_and_edges"
    /\ Cardinality(fnRet) >= 3
    /\ \E i \in DOMAIN fnArgs[1] : fnArgs[1][i] = OMEGA /\ get_successors(fnArgs[2], i) # {}

\* --------------------------------------- safe_pre_image of two downsets
\* the ideals of the contained downset and their largest finite coefficient
MaxContainedIdeals == 2
MaxContainedCoef == 1

\* two calls of safe_pre_image with the same graph and bound, on a downset and
\* on a downset that contains it
FnInitMonotone ==
    /\ fnOp = "safe_pre_image"
    /\ \E dimension \in 1..MaxDim : \E K \in 1..MaxK :
          \E D \in SubsetsUpTo(Ideals(dimension, MaxContainedCoef), MaxContainedIdeals) :
             \E other \in {E \in DownSetsOfDim(dimension) : is_contained_in(D, E)} :
                fnArgs \in {<<D, other, edges, K>> : edges \in Graphs(dimension)}
    /\ fnRet = <<>>
    /\ fnPc = "call"
    /\ PiIdle
    /\ DsIdle
    /\ SgIdle
    /\ SvIdle
    /\ FlIdle
    /\ MzIdle
    /\ LdIdle
    /\ ImIdle

\* the caller enters safe_pre_image on the contained downset
SafePreImageOfContained ==
    /\ fnPc = "call"
    /\ fnOp = "safe_pre_image"
    /\ mzThread' = SafePreImageCall(fnArgs[1], fnArgs[3], fnArgs[4])
    /\ fnPc' = "first"
    /\ UNCHANGED <<fnOp, fnArgs, fnRet, piVars, dsVars, sgVars, svVars, flVars, memoizer,
                   mzMutex, mzPoisoned, mzComputed, ldVars, imVars>>

\* safe_pre_image has returned for the contained downset, and the caller
\* enters it on the containing downset
SafePreImageOfContaining ==
    /\ fnPc = "first"
    /\ fnOp = "safe_pre_image"
    /\ SafePreImageEnded
    /\ IF mzThread[1].pc = "panicked"
       THEN /\ fnPc' = "panicked"
            /\ mzThread' = <<>>
            /\ UNCHANGED fnRet
       ELSE /\ fnPc' = "second"
            /\ fnRet' = <<mzThread[1].result>>
            /\ mzThread' = SafePreImageCall(fnArgs[2], fnArgs[3], fnArgs[4])
    /\ UNCHANGED <<fnOp, fnArgs, piVars, dsVars, sgVars, svVars, flVars, memoizer,
                   mzMutex, mzPoisoned, mzComputed, ldVars, imVars>>

\* safe_pre_image has returned for the containing downset
SafePreImagesReturned ==
    /\ fnPc = "second"
    /\ fnOp = "safe_pre_image"
    /\ SafePreImageEnded
    /\ IF mzThread[1].pc = "panicked"
       THEN fnPc' = "panicked" /\ UNCHANGED fnRet
       ELSE fnPc' = "done" /\ fnRet' = Append(fnRet, mzThread[1].result)
    /\ mzThread' = <<>>
    /\ UNCHANGED <<fnOp, fnArgs, piVars, dsVars, sgVars, svVars, flVars, memoizer,
                   mzMutex, mzPoisoned, mzComputed, ldVars, imVars>>

SpecMonotone ==
    FnInitMonotone /\ [][SafePreImageOfContained \/ SafePreImageStep
                             \/ SafePreImageOfContaining \/ SafePreImagesReturned]_vars

\* C30: safe_pre_image is monotone in its downset: for D contained in D', of
\* the same dimension, D.safe_pre_image(G, K) is contained in
\* D'.safe_pre_image(G, K)
C30_SafePreImageMonotone ==
    (fnOp = "safe_pre_image" /\ fnPc = "done") => is_contained_in(fnRet[1], fnRet[2])

\* the two pre-images differ, the contained downset stores two ideals, and
\* neither downset stores an ideal of the other
C30_Witness ==
    /\ fnOp = "safe_pre_image"
    /\ fnPc = "done"
    /\ Cardinality(fnArgs[1]) = 2
    /\ fnArgs[1] \cap fnArgs[2] = {}
    /\ fnRet[1] # {}
    /\ ~is_contained_in(fnRet[2], fnRet[1])

\* ------------------------------------- get_transports, get_products_rec
\* the longest Vec<Coef> handed to get_transports directly
MaxEdges == 3

\* the sum of the finite entries of row i of a flow
FiniteRowSum(t, i) ==
    LET Sum[n \in 0..t.nb_cols] ==
            IF n = 0 THEN 0
            ELSE Sum[n - 1] + (IF FlowGet(t, i, n - 1) = OMEGA THEN 0 ELSE FlowGet(t, i, n - 1))
    IN Sum[t.nb_cols]

\* the sum of the finite entries of column j of a flow
FiniteColSum(t, j) ==
    LET Sum[n \in 0..t.nb_rows] ==
            IF n = 0 THEN 0
            ELSE Sum[n - 1] + (IF FlowGet(t, n - 1, j) = OMEGA THEN 0 ELSE FlowGet(t, n - 1, j))
    IN Sum[t.nb_rows]

\* the square flows whose finite entries sum to at most k in every row, as in
\* the flows Flow::from_domain_and_edges builds from an ideal bounded by k
FlowsOfBoundedRows(dim, k) ==
    {f \in Flows(dim, k) : \A i \in 0..(dim - 1) : FiniteRowSum(f, i) <= k}

\* the Vec<Coef> of the given length with finite values at most k
CoefVecs(len, k) == [1..len -> Coefs(k)]

\* a call get_transports(left_edges, right_edges, maximal_finite_coordinate),
\* or a call FlowSemigroup::get_products(left, right, MaxK) up to its call of
\* get_products_rec (close_by_product_and_iteration calls get_products only
\* for a bound above 1)
FnInitTransports ==
    /\ \/ /\ fnOp = "get_transports"
          /\ \E k \in 1..MaxK : \E nb_rows \in 1..MaxEdges : \E nb_cols \in 1..MaxEdges :
                fnArgs \in CoefVecs(nb_rows, k) \X CoefVecs(nb_cols, k) \X {k}
       \/ /\ fnOp = "get_products_rec"
          /\ \E dim \in 1..MaxDim :
                fnArgs \in {<<dim, left, right, MaxK, 0, get_omega_entries(left, right)>> :
                                left \in FlowsOfBoundedRows(dim, MaxK),
                                right \in FlowsOfBoundedRows(dim, MaxK)}
    /\ fnRet = <<>>
    /\ fnPc = "call"
    /\ PiIdle
    /\ DsIdle
    /\ SgIdle
    /\ SvIdle
    /\ FlIdle
    /\ MzIdle
    /\ LdIdle
    /\ ImIdle

\* semigroup::get_transports returns or panics
SemigroupGetTransports ==
    /\ fnPc = "call"
    /\ fnOp = "get_transports"
    /\ fnRet' = semigroup_get_transports(fnArgs[1], fnArgs[2], fnArgs[3])
    /\ fnPc' = IF fnRet' = PanicFlows THEN "panicked" ELSE "done"
    /\ UNCHANGED <<fnOp, fnArgs, piVars, dsVars, sgVars, svVars, flVars, mzVars, ldVars, imVars>>

\* get_products_rec at a state k without edges on one side: it goes on with
\* k + 1 or pushes current_flow
SkipState ==
    /\ fnPc = "call"
    /\ fnOp = "get_products_rec"
    /\ edges_to(fnArgs[2], fnArgs[5]) = <<>> \/ edges_from(fnArgs[3], fnArgs[5]) = <<>>
    /\ IF fnArgs[5] + 1 < fnArgs[1]
       THEN fnArgs' = [fnArgs EXCEPT ![5] = fnArgs[5] + 1] /\ UNCHANGED fnPc
       ELSE fnPc' = "done" /\ UNCHANGED fnArgs
    /\ UNCHANGED <<fnOp, fnRet, piVars, dsVars, sgVars, svVars, flVars, mzVars, ldVars, imVars>>

\* one turn of `for t in transports` of get_products_rec, up to the recursive
\* call or the push of current_flow; a panic of the loop over all_indices (a
\* failed debug_assert!, an overflow) ends the call
ApplyTransport ==
    /\ fnPc = "call"
    /\ fnOp = "get_products_rec"
    /\ edges_to(fnArgs[2], fnArgs[5]) # <<>>
    /\ edges_from(fnArgs[3], fnArgs[5]) # <<>>
    /\ LET left == fnArgs[2]
           right == fnArgs[3]
           k == fnArgs[5]
           indices == all_indices(left, right, k)
       IN \E t \in semigroup_get_transports(left_coefs(left, k), right_coefs(right, k), fnArgs[4]) :
            LET after == apply_transport(t, indices, 1, k, fnArgs[4], fnArgs[6], left, right)
            IN /\ fnRet' = <<t, left_coefs(left, k), right_coefs(right, k)>>
               /\ IF after = PanicTransport
                  THEN fnPc' = "panicked" /\ UNCHANGED fnArgs
                  ELSE IF k + 1 >= fnArgs[1]
                  THEN /\ fnPc' = "done"
                       /\ fnArgs' = [fnArgs EXCEPT ![6] = after[1]]
                  ELSE /\ fnPc' = "call"
                       /\ fnArgs' = <<fnArgs[1], after[2], after[3], fnArgs[4], k + 1, after[1]>>
    /\ UNCHANGED <<fnOp, piVars, dsVars, sgVars, svVars, flVars, mzVars, ldVars, imVars>>

SpecTransports == FnInitTransports /\ [][SemigroupGetTransports \/ SkipState \/ ApplyTransport]_vars

\* a transport keeps within the budgets of its rows and columns, an omega
\* budget counting as the bound
RespectsBudgets(t, left_edges, right_edges, maximal_finite_coordinate) ==
    /\ \A i \in 0..(t.nb_rows - 1) :
          FiniteRowSum(t, i) <= (IF left_edges[i + 1] = OMEGA THEN maximal_finite_coordinate
                                 ELSE left_edges[i + 1])
    /\ \A j \in 0..(t.nb_cols - 1) :
          FiniteColSum(t, j) <= (IF right_edges[j + 1] = OMEGA THEN maximal_finite_coordinate
                                 ELSE right_edges[j + 1])

\* C25: every transport returned by get_transports(left, right, K) keeps the
\* sum of the finite entries of each row within left[i] and of each column
\* within right[j], omega counting as K, and no assertion cl >= tij or
\* cr >= tij of get_products_rec fails
C25_TransportsRespectBudgets ==
    /\ (fnOp = "get_transports" /\ fnPc = "done") =>
          \A t \in fnRet : RespectsBudgets(t, fnArgs[1], fnArgs[2], fnArgs[3])
    /\ (fnOp = "get_products_rec" /\ fnRet # <<>>) =>
          /\ RespectsBudgets(fnRet[1], fnRet[2], fnRet[3], fnArgs[4])
          /\ fnPc # "panicked"

\* get_products_rec has applied, at its second state, a transport between an
\* omega edge and two finite edges that uses the whole budget of the row
C25_Witness ==
    /\ fnOp = "get_products_rec"
    /\ fnRet # <<>>
    /\ fnArgs[5] >= 1
    /\ \E i \in 0..(fnRet[1].nb_rows - 1) :
          /\ fnRet[2][i + 1] = OMEGA
          /\ FiniteRowSum(fnRet[1], i) = fnArgs[4]
          /\ \E j \in 0..(fnRet[1].nb_cols - 1) :
                FlowGet(fnRet[1], i, j) # OMEGA /\ FlowGet(fnRet[1], i, j) > 0
                    /\ FlowGet(fnRet[1], i, j) < fnArgs[4]

\* ------------------------------------------------------- solver machine
LetterNames == <<"a", "b", "c">>
Alphabet == {LetterNames[i] : i \in 1..MaxLetters}

\* the Nfas with nb_states states over the alphabet
Nfas(nb_states) ==
    {Nfa(nb_states, initial, accepting, transitions) :
        initial \in SUBSET (0..(nb_states - 1)),
        accepting \in SUBSET (0..(nb_states - 1)),
        transitions \in SubsetsUpTo((0..(nb_states - 1)) \X Alphabet \X (0..(nb_states - 1)),
                                    MaxTransitions)}

\* solve(nfa, output) up to the first call of update_strategy
SvInit ==
    /\ \E nb_states \in 1..MaxStates : svNfa \in Nfas(nb_states)
    /\ svOutput \in {"Strategy", "YesNo"}
    /\ svStrategy = get_maximal_strategy(svNfa.nb_states, get_alphabet(svNfa))
    /\ svK = IF svOutput = "Strategy" THEN svNfa.nb_states % (CoefMax + 1) ELSE 1
    /\ svStep = 0
    /\ is_controllable = FALSE
    /\ svPc = "loop"
    /\ final_states \in iteration_orders(svNfa.accepting)
    /\ svSemigroup = {}
    /\ svSafe = {}
    /\ svLetters = {}
    /\ svLetter = ""
    /\ svResult = FALSE
    /\ PiIdle
    /\ DsIdle
    /\ SgIdle
    /\ ExIdle

\* solve(nfa, output) on an Nfa that is not complete, with at most
\* MaxLettersCompleted letters and MaxTransitionsCompleted transitions
SvInitCompletion ==
    /\ SvInit
    /\ ~is_complete(svNfa)
    /\ Cardinality(get_alphabet(svNfa)) <= MaxLettersCompleted
    /\ Cardinality(svNfa.transitions) <= MaxTransitionsCompleted

\* solve(nfa, output) on a one-letter Nfa with MaxStatesThree states, state 0
\* initial and the last state accepting
SvInitThree ==
    /\ svNfa \in {Nfa(MaxStatesThree, {0}, {MaxStatesThree - 1},
                      {<<e[1], LetterNames[1], e[2]>> : e \in E}) :
                    E \in SubsetsUpTo((0..(MaxStatesThree - 1)) \X (0..(MaxStatesThree - 1)),
                                      MaxTransitionsThree)}
    /\ svOutput \in {"Strategy", "YesNo"}
    /\ svStrategy = get_maximal_strategy(svNfa.nb_states, get_alphabet(svNfa))
    /\ svK = IF svOutput = "Strategy" THEN svNfa.nb_states % (CoefMax + 1) ELSE 1
    /\ svStep = 0
    /\ is_controllable = FALSE
    /\ svPc = "loop"
    /\ final_states \in iteration_orders(svNfa.accepting)
    /\ svSemigroup = {}
    /\ svSafe = {}
    /\ svLetters = {}
    /\ svLetter = ""
    /\ svResult = FALSE
    /\ PiIdle
    /\ DsIdle
    /\ SgIdle
    /\ ExIdle

\* the ideal `source` of solve
SvSource == solve_source(svNfa)

\* the call of update_strategy the loops of solve make: its possible
\* outcomes
SvUpdate ==
    update_strategy(memoizer, svNfa.nb_states, svStrategy, final_states, get_edges(svNfa), svK)

\* the guard of the loop bodies: compute_maximal_winning_strategy loops
\* until it returns, compute_control_problem_solution while
\* maximal_finite_value is in the range 1..dim as coef
UpdateStrategyEnabled ==
    /\ svPc = "loop"
    /\ svOutput = "YesNo" => svK < svNfa.nb_states % (CoefMax + 1)
    /\ svStep < MaxSteps

\* the loop body calls update_strategy, which runs up to its call of
\* strategy.restrict_to: the semigroup is computed, in one of the orders of
\* its HashSets, and the winning downset is built from it; restrict_to
\* begins with result = false and the letters of the HashMap to go through
UpdateStrategy ==
    /\ UpdateStrategyEnabled
    /\ \E semigroup \in compute(compute_action_flows(svStrategy, get_edges(svNfa)), svK) :
          /\ svSemigroup' = semigroup
          /\ svSafe' = winning_downset(semigroup, svNfa.nb_states, final_states, svK)
    /\ svLetters' = DOMAIN svStrategy
    /\ svResult' = FALSE
    /\ svStep' = svStep + 1
    /\ svPc' = IF svSafe' = PanicIdeals THEN "panicked" ELSE "restrict_to"
    /\ UNCHANGED <<svNfa, svOutput, svStrategy, svK, is_controllable, final_states, svLetter,
                   piVars, dsVars, sgVars, exVars>>

\* `for (a, ideal) in self.0.iter_mut()`: the HashMap yields one of the
\* letters it has not yielded yet, and the loop body enters
\* safe.safe_pre_image(edges, maximal_finite_value) with the graph of the letter
RestrictToLetter ==
    /\ svPc = "restrict_to"
    /\ \E a \in svLetters :
          /\ svLetter' = a
          /\ svLetters' = svLetters \ {a}
          /\ mzThread' = SafePreImageCall(svSafe, get_edges(svNfa)[a], svK)
    /\ svPc' = "safe_pre_image"
    /\ UNCHANGED <<svNfa, svOutput, svStrategy, svK, svStep, is_controllable, final_states,
                   svSemigroup, svSafe, svResult, piVars, dsVars, sgVars, flVars, fnVars,
                   memoizer, mzMutex, mzPoisoned, mzComputed, ldVars, imVars>>

\* `result |= ideal.restrict_to(&safe_pre_image)` once safe_pre_image has
\* returned, which ends the loop body for the letter; a panic of
\* safe_pre_image ends solve
RestrictDownSet ==
    /\ svPc = "safe_pre_image"
    /\ SafePreImageEnded
    /\ IF mzThread[1].pc = "panicked"
       THEN svPc' = "panicked" /\ UNCHANGED <<svStrategy, svResult>>
       ELSE /\ svStrategy' = [svStrategy EXCEPT
                                 ![svLetter] = restrict_to(@, mzThread[1].result)]
            /\ svResult' = (svResult \/ restrict_to_ret(svStrategy[svLetter],
                                                        mzThread[1].result))
            /\ svPc' = "restrict_to"
    /\ svLetter' = ""
    /\ mzThread' = <<>>
    /\ UNCHANGED <<svNfa, svOutput, svK, svStep, is_controllable, final_states, svSemigroup,
                   svSafe, svLetters, piVars, dsVars, sgVars, flVars, fnVars,
                   memoizer, mzMutex, mzPoisoned, mzComputed, ldVars, imVars>>

\* the end of one turn of the `loop` of compute_maximal_winning_strategy:
\* restrict_to has gone through the letters and drops `safe`,
\* update_strategy returns its result as `changed`, and the loop returns
\* unless something changed
UpdateMaximal ==
    /\ svPc = "restrict_to"
    /\ svLetters = {}
    /\ svOutput = "Strategy"
    /\ svPc' = IF ~svResult THEN "return" ELSE "loop"
    /\ svSafe' = {}
    /\ UNCHANGED <<svNfa, svOutput, svStrategy, svK, svStep, is_controllable, final_states,
                   svSemigroup, svLetters, svLetter, svResult, piVars, dsVars, sgVars,
                   exVars>>

\* compute_control_problem_solution creating its strategy anew for each
\* maximal_finite_value
UpdateControlOfNewStrategy ==
    /\ svPc = "restrict_to"
    /\ svLetters = {}
    /\ svOutput = "YesNo"
    /\ IF svResult /\ is_defined_on(svStrategy, SvSource)
       THEN svPc' = "loop" /\ UNCHANGED <<svK, svStrategy>>
       ELSE IF is_defined_on(svStrategy, SvSource)
       THEN svPc' = "return" /\ UNCHANGED <<svK, svStrategy>>
       ELSE /\ svPc' = "loop"
            /\ svK' = svK + 1
            /\ svStrategy' = get_maximal_strategy(svNfa.nb_states, get_alphabet(svNfa))
    /\ svSafe' = {}
    /\ UNCHANGED <<svNfa, svOutput, svStep, is_controllable, final_states,
                   svSemigroup, svLetters, svLetter, svResult, piVars, dsVars, sgVars,
                   exVars>>

\* the end of one turn of the inner `loop` of compute_control_problem_solution:
\* restrict_to has gone through the letters and drops `safe`,
\* update_strategy returns its result as `changed`, and the two tests that
\* follow decide between another turn, the return and the next
\* maximal_finite_value
UpdateControl ==
    /\ svPc = "restrict_to"
    /\ svLetters = {}
    /\ svOutput = "YesNo"
    /\ IF svResult /\ is_defined_on(svStrategy, SvSource)
       THEN svPc' = "loop" /\ UNCHANGED svK
       ELSE IF is_defined_on(svStrategy, SvSource)
       THEN svPc' = "return" /\ UNCHANGED svK
       ELSE svPc' = "loop" /\ svK' = svK + 1
    /\ svSafe' = {}
    /\ UNCHANGED <<svNfa, svOutput, svStrategy, svStep, is_controllable, final_states,
                   svSemigroup, svLetters, svLetter, svResult, piVars, dsVars, sgVars,
                   exVars>>

\* the range 1..dim as coef of compute_control_problem_solution is exhausted
EndFor ==
    /\ svPc = "loop"
    /\ svOutput = "YesNo"
    /\ svK >= svNfa.nb_states % (CoefMax + 1)
    /\ svPc' = "return"
    /\ UNCHANGED <<svNfa, svOutput, svStrategy, svK, svStep, is_controllable, final_states,
                   svSemigroup, svSafe, svLetters, svLetter, svResult, piVars, dsVars,
                   sgVars, exVars>>

\* solve builds its Solution
Return ==
    /\ svPc = "return"
    /\ is_controllable' = is_defined_on(svStrategy, SvSource)
    /\ svPc' = "done"
    /\ UNCHANGED <<svNfa, svOutput, svStrategy, svK, svStep, final_states, svSemigroup,
                   svSafe, svLetters, svLetter, svResult, piVars, dsVars, sgVars, exVars>>

SvNext ==
    \/ UpdateStrategy
    \/ RestrictToLetter
    \/ SafePreImageStep
    \/ RestrictDownSet
    \/ UpdateMaximal
    \/ UpdateControl
    \/ EndFor
    \/ Return

SpecSolver == SvInit /\ [][SvNext]_vars

\* an Nfa is loaded, sorted and solved
SpecLoad == LdInit /\ [][Sort \/ SortPanics \/ Solve \/ SvNext \/ Solved]_vars

SpecSolverCompletion == SvInitCompletion /\ [][SvNext]_vars

SpecSolverThree == SvInitThree /\ [][SvNext]_vars

\* the only thread there is stands before the filter of safe_pre_image
FilterEnabled == \E t \in DOMAIN mzThread : mzThread[t].pc = "filter"

\* solve is a sequential program: a step that can be taken is taken.  The weak
\* fairness of the two steps that compute the most, UpdateStrategy and
\* Filter, is written out, their enabling conditions being their guards
SpecSolverFair ==
    /\ SvInit /\ [][SvNext]_vars
    /\ WF_vars(RestrictToLetter \/ (\E t \in DOMAIN mzThread :
                                       Enter(t) \/ Lock(t) \/ Get(t) \/ Unlock(t))
                   \/ RestrictDownSet \/ UpdateMaximal \/ UpdateControl \/ EndFor \/ Return)
    /\ \/ []<>(~(UpdateStrategyEnabled \/ FilterEnabled))
       \/ []<><<UpdateStrategy \/ (\E t \in DOMAIN mzThread : Filter(t))>>_vars

\* C4: every step of solve leaves each downset of the strategy contained in its
\* value before the step, in both modes and across the values of
\* maximal_finite_value; the letters of the strategy and the Nfa never change
C4_StrategyOnlyShrinks ==
    [][svPc # "idle" =>
          /\ svNfa' = svNfa
          /\ DOMAIN svStrategy' = DOMAIN svStrategy
          /\ \A a \in DOMAIN svStrategy : is_contained_in(svStrategy'[a], svStrategy[a])]_vars

C4_Witness ==
    /\ svOutput = "YesNo"
    /\ svK = MaxStatesThree
    /\ svStep >= 2
    /\ svPc = "return"
    /\ \E a \in DOMAIN svStrategy :
          /\ svStrategy[a] # {}
          /\ ~contains(svStrategy[a], IdealNew(svNfa.nb_states, OMEGA))

\* C5: both loops of solve terminate: solve returns, after fewer than MaxSteps
\* calls of update_strategy
C5_SolveTerminates ==
    /\ [](svStep < MaxSteps)
    /\ <>(svPc = "done")

C5_Witness ==
    /\ svPc = "done"
    /\ svStep >= 3

\* C7: for an Nfa with no transition, solve reports controllable iff every
\* initial state is accepting
C7_EmptyAlphabet ==
    (svPc = "done" /\ svNfa.transitions = {}) =>
        (is_controllable <=> svNfa.initial \subseteq svNfa.accepting)

\* C8: for an Nfa in which some state has no successor by some letter, the
\* verdict of solve is its verdict for the completed Nfa, whatever the orders
\* in which the two runs go through their HashSets
C8_VerdictOfCompletion ==
    (svPc = "done" /\ ~is_complete(svNfa)) =>
        solve(memoizer, complete(svNfa), svOutput) = {is_controllable}

\* solve has returned controllable for an Nfa of two states, one of which has
\* a successor by one letter and none by another letter of the alphabet
C8_Witness ==
    /\ svPc = "done"
    /\ ~is_complete(svNfa)
    /\ is_controllable
    /\ svNfa.nb_states = 2
    /\ \E t \in svNfa.transitions : \E b \in get_alphabet(svNfa) :
          /\ b # t[2]
          /\ ~\E u \in svNfa.transitions : u[1] = t[1] /\ u[2] = b

\* the semigroups the next call of update_strategy can get from compute
SvSemigroup == compute(compute_action_flows(svStrategy, get_edges(svNfa)), svK)

\* the winning downsets the next call of update_strategy can hand to
\* restrict_to
SvWinning ==
    {winning_downset(semigroup, svNfa.nb_states, final_states, svK) :
        semigroup \in SvSemigroup}

\* the sum of the entries of row i of a flow at the accepting columns, with
\* omega as soon as one of them is omega
SumOverAccepting(f, i, cols) ==
    IF \E j \in cols : FlowGet(f, i, j) = OMEGA THEN OMEGA
    ELSE LET Sum[S \in SUBSET cols] ==
                 IF S = {} THEN 0
                 ELSE LET j == CHOOSE c \in S : TRUE IN FlowGet(f, i, j) + Sum[S \ {j}]
         IN Sum[cols]

\* C24: in every call of update_strategy the winning downset handed to
\* Strategy::restrict_to is an antichain, contains the accepting omega vector,
\* has no finite coefficient above K, and each of its ideals is below the
\* accepting omega vector or below the row sums over the accepting columns of
\* some flow of the closed semigroup
C24_WinningDownsetShape ==
    svPc \in {"restrict_to", "safe_pre_image"} =>
        LET final_ideal == get_omega_ideal(svNfa.nb_states, final_states)
        IN /\ IsAntichain(svSafe)
           /\ contains(svSafe, final_ideal)
           /\ \A x \in svSafe : ~some_finite_coordinate_is_larger_than(x, svK)
           /\ \A x \in svSafe :
                \/ IdealLeq(x, final_ideal)
                \/ \E f \in svSemigroup :
                        \A i \in DOMAIN x :
                            x[i] <= SumOverAccepting(f, i, svNfa.accepting)

\* a later call of update_strategy has handed over a downset of several
\* ideals, one of them with a positive finite coefficient, and restrict_to is
\* inside safe_pre_image with it
C24_Witness ==
    /\ svPc = "safe_pre_image"
    /\ svStep >= 2
    /\ Cardinality(svSafe) >= 2
    /\ \E x \in svSafe : \E i \in DOMAIN x : x[i] # OMEGA /\ x[i] > 0

\* C27: when solve returns in maximal-strategy mode, and when it returns in
\* yes/no mode with a strategy defined on the initial configuration, the
\* strategy is a fixpoint of update_strategy for the final K: each of its
\* downsets is contained in the safe pre-image of the winning downset
\* recomputed from it, and one more update_strategy changes nothing
C27_ReturnedStrategyIsFixpoint ==
    (svPc \in {"return", "done"}
        /\ (svOutput = "Strategy" \/ is_defined_on(svStrategy, SvSource))) =>
        /\ \A winning \in SvWinning : \A a \in DOMAIN svStrategy :
                is_contained_in(svStrategy[a],
                                safe_pre_image(winning, get_edges(svNfa)[a], svK))
        /\ \A again \in SvUpdate : ~again.changed /\ again.strategy = svStrategy

\* C27 for the runs of solve that called update_strategy at least once
C27_FixpointAfterAnUpdate ==
    (svStep >= 1 /\ svPc \in {"return", "done"}
        /\ (svOutput = "Strategy" \/ is_defined_on(svStrategy, SvSource))) =>
        /\ \A winning \in SvWinning : \A a \in DOMAIN svStrategy :
                is_contained_in(svStrategy[a],
                                safe_pre_image(winning, get_edges(svNfa)[a], svK))
        /\ \A again \in SvUpdate : ~again.changed /\ again.strategy = svStrategy

\* C28: for every Nfa, solve in yes/no mode and solve in maximal-strategy mode
\* return the same is_controllable
C28_ModesAgree ==
    svPc = "done" =>
        solve(memoizer, svNfa, IF svOutput = "YesNo" THEN "Strategy" ELSE "YesNo")
            = {is_controllable}

\* C28 for the Nfas of at least two states
C28_ModesAgreeFromTwoStates ==
    (svPc = "done" /\ svNfa.nb_states >= 2) =>
        solve(memoizer, svNfa, IF svOutput = "YesNo" THEN "Strategy" ELSE "YesNo")
            = {is_controllable}

\* the transitions of the Nfas solve sweeps maximal_finite_value on
MaxTransitionsSwept == 3

\* solve(nfa, YesNo) on a one-letter Nfa with MaxStatesThree states, state 0
\* initial and the last state accepting
SvInitSwept ==
    /\ svNfa \in {Nfa(MaxStatesThree, {0}, {MaxStatesThree - 1},
                      {<<e[1], LetterNames[1], e[2]>> : e \in E}) :
                    E \in SubsetsUpTo((0..(MaxStatesThree - 1)) \X (0..(MaxStatesThree - 1)),
                                      MaxTransitionsSwept)}
    /\ svOutput = "YesNo"
    /\ svStrategy = get_maximal_strategy(svNfa.nb_states, get_alphabet(svNfa))
    /\ svK = 1
    /\ svStep = 0
    /\ is_controllable = FALSE
    /\ svPc = "loop"
    /\ final_states \in iteration_orders(svNfa.accepting)
    /\ svSemigroup = {}
    /\ svSafe = {}
    /\ svLetters = {}
    /\ svLetter = ""
    /\ svResult = FALSE
    /\ PiIdle
    /\ DsIdle
    /\ SgIdle
    /\ ExIdle

SpecSolverSwept ==
    SvInitSwept /\ [][UpdateStrategy \/ RestrictToLetter \/ SafePreImageStep \/ RestrictDownSet
                         \/ UpdateControl \/ EndFor \/ Return]_vars

\* C29: in yes/no mode the strategy is carried from one maximal_finite_value
\* to the next: once it is undefined on the source after a call of
\* update_strategy, it is undefined after every later call, whatever the
\* maximal_finite_value, and the verdict is not controllable
C29_UndefinedStaysUndefined ==
    [][(svOutput = "YesNo" /\ svStep >= 1 /\ ~is_defined_on(svStrategy, SvSource)) =>
          /\ ~is_defined_on(svStrategy', SvSource')
          /\ svPc' = "done" => ~is_controllable']_vars

\* yes/no mode has called update_strategy with a second maximal_finite_value
\* on a strategy that two calls with the first had left undefined on the
\* source, and the strategy still holds an ideal
C29_Witness ==
    /\ svOutput = "YesNo"
    /\ svK > 2
    /\ svStep >= 3
    /\ ~is_defined_on(svStrategy, SvSource)
    /\ \E a \in DOMAIN svStrategy : svStrategy[a] # {}

\* ------------------------------------------------------------ C1
\* the populations of nb_tokens tokens over the states of the nfa
Populations(nfa, nb_tokens) ==
    {c \in [0..(nfa.nb_states - 1) -> 0..nb_tokens] :
        EdgeSum([e \in {<<i, i>> : i \in DOMAIN c} |-> c[e[1]]],
                {<<i, i>> : i \in DOMAIN c}) = nb_tokens}

\* the populations the adversary can reach from c when the controller plays a
\* letter with graph g: every token follows an edge the adversary picks
Moves(c, g, nb_tokens) ==
    {[j \in DOMAIN c |-> EdgeSum(d, {e \in g.edges : e[2] = j})] :
        d \in {d \in [g.edges -> 0..nb_tokens] :
                 \A i \in DOMAIN c : EdgeSum(d, {e \in g.edges : e[1] = i}) = c[i]}}

\* every token of c has an edge to follow in g
Playable(c, g) == \A i \in DOMAIN c : c[i] # 0 => \E e \in g.edges : e[1] = i

RECURSIVE TokenAttractor(_, _, _)
\* the populations from which the controller brings all the tokens into
\* accepting states whatever the adversary does, W being those found so far
TokenAttractor(nfa, nb_tokens, W) ==
    LET more == {c \in Populations(nfa, nb_tokens) \ W :
                    \E a \in get_alphabet(nfa) :
                        /\ Playable(c, get_support(nfa, a))
                        /\ Moves(c, get_support(nfa, a), nb_tokens) \subseteq W}
    IN IF more = {} THEN W ELSE TokenAttractor(nfa, nb_tokens, W \cup more)

\* the controller wins the game with nb_tokens tokens from every population
\* that sits on initial states
TokenControl(nfa, nb_tokens) ==
    LET accepted == {c \in Populations(nfa, nb_tokens) :
                        \A i \in DOMAIN c : c[i] # 0 => i \in nfa.accepting}
    IN \A c \in Populations(nfa, nb_tokens) :
          (\A i \in DOMAIN c : c[i] # 0 => i \in nfa.initial)
              => c \in TokenAttractor(nfa, nb_tokens, accepted)

\* the sets of states the tokens may occupy after a letter with graph g is
\* played from the set S: every state of S keeps an edge
SupportMoves(S, g) ==
    {T \in SUBSET {e[2] : e \in {f \in g.edges : f[1] \in S}} :
        \A i \in S : \E e \in g.edges : e[1] = i /\ e[2] \in T}

RECURSIVE SupportAttractor(_, _)
\* the sets of occupied states from which a controller that looks at the
\* occupied states only brings every token into accepting states
SupportAttractor(nfa, W) ==
    LET more == {S \in (SUBSET (0..(nfa.nb_states - 1))) \ W :
                    \E a \in get_alphabet(nfa) :
                        /\ \A i \in S : \E e \in get_support(nfa, a).edges : e[1] = i
                        /\ SupportMoves(S, get_support(nfa, a)) \subseteq W}
    IN IF more = {} THEN W ELSE SupportAttractor(nfa, W \cup more)

\* the controller wins for every population size with a strategy that looks
\* at the occupied states only
SupportControl(nfa) ==
    \A S \in SUBSET nfa.initial : S \in SupportAttractor(nfa, SUBSET nfa.accepting)

\* C1: the verdict of solve is the answer to the population control problem:
\* it is true when the controller wins for every population size (here: with a
\* strategy on the occupied states), and when it is true the controller wins
\* the game with every number of tokens (here: up to MaxTokens)
C1_VerdictIsPopulationControl ==
    (svPc = "done" /\ svNfa.initial # {}) =>
        /\ SupportControl(svNfa) => is_controllable
        /\ is_controllable => \A nb_tokens \in 1..MaxTokens : TokenControl(svNfa, nb_tokens)

RECURSIVE reference_visit(_, _)
\* the loop `for product in products` of the reference run: of the products
\* that are not covered, the one CHOOSE gives is admitted next
reference_visit(st, products) ==
    IF admissible(products, st.flows) = {} THEN st
    ELSE reference_visit(admit_product(st, CHOOSE prod \in admissible(products, st.flows) : TRUE),
                         products)

RECURSIVE reference_close(_, _, _)
\* the reference run from the position pc on: what it returns
reference_close(st, pc, maximal_finite_coordinate) ==
    IF pc = "mult"
    THEN IF st.mult # <<>>
         THEN reference_close(
                  reference_visit(ClosureState(st.flows, Tail(st.mult), st.iter, st.changed),
                                  products_of(Head(st.mult), st.flows,
                                              maximal_finite_coordinate)),
                  "mult", maximal_finite_coordinate)
         ELSE reference_close(st, "iter", maximal_finite_coordinate)
    ELSE IF st.iter # <<>>
         THEN reference_close(admit_iteration(st), "iter", maximal_finite_coordinate)
         ELSE IF ~st.changed THEN semigroup_minimize(st.flows)
              ELSE reference_close(ClosureState(st.flows, st.mult, st.iter, FALSE),
                                   "mult", maximal_finite_coordinate)

\* one of the runs of FlowSemigroup::compute on the seeds, taken as the run
\* the others are compared with: its queues start in the order `order`, and
\* it goes through every HashSet of products in the order CHOOSE gives
reference_run(order, maximal_finite_coordinate) ==
    reference_close(ClosureState(SeqRange(order), order, SelectSeq(order, is_idempotent),
                                 FALSE),
                    "mult", maximal_finite_coordinate)

\* C10: the flows returned by FlowSemigroup::compute do not depend on the order in
\* which seeds, products and iterations are dequeued and admitted: whatever
\* order the run followed, its result is the one of the reference run on
\* the same seeds
C10_FinalAntichainUnique ==
    sgPc = "done" =>
        sgFlows = reference_run(CHOOSE order \in iteration_orders(sgSeeds) : TRUE, sgK)

====
